---- MODULE Spec2Model ----
(***************************************************************************)
(* Model of geodezyx.files_rw.read_rinex: read_rinex2_obs, read_rinex3_obs *)
(* and _sats_find (Spec, SpecSats), and of geodezyx.reffram.gnss_products: *)
(* compar_orbit (SpecOrbit) and compar_sinex (SpecSinex).                  *)
(*                                                                         *)
(* Encoding.  A file line is a record [kind, tag, num, ts, items]:         *)
(*   kind  "hdr"     any other header line                                 *)
(*         "eoh"     a line containing END OF HEADER                       *)
(*         "types2"  a line containing # / TYPES OF OBSERV; items are its  *)
(*                   whitespace separated tokens in columns 0..59          *)
(*         "sys3"    a line containing SYS / # / OBS TYPES; tag is "L"     *)
(*                   when its first character is a system letter and " "   *)
(*                   when it is a blank; items are its tokens: the system  *)
(*                   letter, the count and the codes of an "L" line        *)
(*         "epoch2"  RINEX 2 EPOCH/SAT line: ts the timestamp, num the     *)
(*                   satellite count of columns 30..31, items the          *)
(*                   3-character identifiers of columns 32..67             *)
(*         "satcont" continuation of the satellite list: 32 blanks, then   *)
(*                   the identifiers in columns 32..67                     *)
(*         "obs2"    RINEX 2 observation line: items are its 16-character  *)
(*                   field groups <<value, LLI, SSI>>; a line shorter than *)
(*                   80 characters has fewer of them                       *)
(*         "epoch3"  RINEX 3 epoch header line (starts with >)             *)
(*         "sat3"    RINEX 3 satellite line: tag "" , num the 3-character  *)
(*                   PRN prefix, items the 16-character field groups       *)
(* Field texts are integers: BLANK is a field of spaces, t > 0 the digits  *)
(* of the number t.  A character is its rank in the order blank, -, .,     *)
(* 0..9, A..Z; a satellite identifier of three characters c1 c2 c3 is the  *)
(* integer (c1 * Base + c2) * Base + c3, so that integer order is string   *)
(* order.  An EPOCH/SAT line with tag "clk" carries a receiver clock       *)
(* offset in columns 68..79.                                               *)
(* A column name is <<code, kind>>: <<0,0>> epoch, <<0,1>> sys, <<0,2>>    *)
(* prn, and for an observable code c >= 1: <<c,0>> = c, <<c,1>> = c_LLI,   *)
(* <<c,2>> = c_SSI; for codes of equal length the order of these pairs is  *)
(* the order of the strings.                                               *)
(***************************************************************************)
EXTENDS Integers, Sequences, FiniteSets, TLC

\* ------------------------------------------------------------------ bounds
MaxObs == 2
MaxEpochs == 2
MaxSatsTotal == 3
\* the lines of a RINEX 2 satellite list followed line by line
MaxSatLines == 2
\* the continuation lines of a SYS / # / OBS TYPES record
MaxContLines == 2
\* the entries of the sats_used_list given to compar_orbit
MaxSatsUsed == 3
\* the different columns of coordinate differences given to compar_sinex
MaxDiff == 2

\* ------------------------------------------------------- program constants
\* observables per physical RINEX 2 observation line
ObsPerLine == 5
\* satellite identifiers per EPOCH/SAT line
SatsPerLine == 12

\* ------------------------------------------------------------ basic values
None == <<>>
Some(x) == <<x>>

BLANK == 0
NA == 0 - 1

\* the characters: blank 0, "-" 1, "." 2, the digits 3..12, the letters 13..38
Base == 40
Minus == 1
Dot == 2
Digit(d) == d + 3
Letter == [E |-> 17, G |-> 19, R |-> 30, X |-> 36]

\* a string of at most three characters as an integer, and back
Tok(cs) ==
  LET c(i) == IF i <= Len(cs) THEN cs[i] ELSE 0
  IN  (c(1) * Base + c(2)) * Base + c(3)

CharsOf(id) == <<id \div (Base * Base), (id \div Base) % Base, id % Base>>

\* the identifier "Lnn" of satellite n of the system of this letter
PRN(letter, n) == Tok(<<letter, Digit(n \div 10), Digit(n % 10)>>)

ColEpoch == <<0, 0>>
ColSys == <<0, 1>>
ColPrn == <<0, 2>>

Min(a, b) == IF a < b THEN a ELSE b
Max(a, b) == IF a < b THEN b ELSE a

\* np.ceil(a / b) for a >= 0, b > 0
Ceil(a, b) == (a + b - 1) \div b

\* s[lo:hi] of Python for 0 <= lo; hi is None or Some(n), n >= 0
PySlice(s, lo, hi) ==
  LET top == IF hi = None THEN Len(s) ELSE Min(hi[1], Len(s))
  IN  IF lo >= top THEN <<>> ELSE SubSeq(s, lo + 1, top)

RECURSIVE Flatten(_)
Flatten(ss) == IF ss = <<>> THEN <<>> ELSE Head(ss) \o Flatten(Tail(ss))

RECURSIVE AscSeq(_)
\* the integers of S in ascending order
AscSeq(S) ==
  IF S = {} THEN <<>>
  ELSE LET m == CHOOSE x \in S : \A y \in S : x <= y
       IN  <<m>> \o AscSeq(S \ {m})

Range(s) == {s[i] : i \in 1..Len(s)}

\* ------------------------------------------------------------- input files
Line(kind, tag, num, ts, items) ==
  [kind |-> kind, tag |-> tag, num |-> num, ts |-> ts, items |-> items]

Ident(n) == [k \in 1..n |-> k]
Rev(n) == [k \in 1..n |-> n + 1 - k]

\* the field group written for observable k (0-based) of satellite i
\* (0-based) of block e: a value no other field of the file holds
FullCell(e, i, k) == <<100 * e + 10 * (i + 1) + (k + 1), BLANK, k + 1>>

Cells(e, i, from, to) == [k \in 1..(to - from) |-> FullCell(e, i, from + k - 1)]

\* the observation lines of satellite i of block e holding n observables
ObsLines2(e, i, n) ==
  [j \in 1..Ceil(n, ObsPerLine) |->
     Line("obs2", "", 0, 0,
          Cells(e, i, ObsPerLine * (j - 1), Min(ObsPerLine * j, n)))]

\* letters: the constellation letter of each satellite of the block
Block2(e, ts, letters, n) ==
  LET ids == [i \in 1..Len(letters) |-> PRN(letters[i], i)]
  IN  <<Line("epoch2", "", Len(letters), ts, PySlice(ids, 0, Some(SatsPerLine)))>>
      \o [j \in 1..(Ceil(Len(letters), SatsPerLine) - 1) |->
            Line("satcont", "", 0, 0,
                 PySlice(ids, SatsPerLine * j, Some(SatsPerLine * (j + 1))))]
      \o Flatten([i \in 1..Len(letters) |-> ObsLines2(e, i - 1, n)])

Block3(e, ts, letters, n) ==
  <<Line("epoch3", "", 0, ts, <<>>)>>
  \o [i \in 1..Len(letters) |->
        Line("sat3", "", PRN(letters[i], i), 0, Cells(e, i - 1, 0, n))]

\* timestamps of the blocks: ascending, or descending when rev
Stamp(e, ne, rev) == IF rev THEN ne + 1 - e ELSE e

Body2(shape, rev, n) ==
  Flatten([e \in 1..Len(shape) |-> Block2(e, Stamp(e, Len(shape), rev), shape[e], n)])

Body3(shape, rev, n) ==
  Flatten([e \in 1..Len(shape) |-> Block3(e, Stamp(e, Len(shape), rev), shape[e], n)])

Eoh(hasEOH) == IF hasEOH THEN <<Line("eoh", "", 0, 0, <<>>)>> ELSE <<>>

Header2(hasEOH, decl, codes) ==
  <<Line("hdr", "", 0, 0, <<>>), Line("types2", "", 0, 0, <<decl>> \o codes)>>
  \o Eoh(hasEOH)

\* systems: a sequence of <<letter, declared count, codes>>
Header3(hasEOH, systems) ==
  <<Line("hdr", "", 0, 0, <<>>)>>
  \o [i \in 1..Len(systems) |->
        Line("sys3", "L", 0, 0, <<systems[i][1], systems[i][2]>> \o systems[i][3])]
  \o Eoh(hasEOH)

\* the SYS / # / OBS TYPES record of a system with k + 1 codes, one code on
\* the system line and one on each of k continuation lines
SysRecord(letter, k) ==
  <<Line("sys3", "L", 0, 0, <<letter, k + 1, 1>>)>>
  \o [j \in 1..k |-> Line("sys3", " ", 0, 0, <<j + 1>>)]

\* records: a sequence of <<letter, k>>
Header3Cont(records) ==
  <<Line("hdr", "", 0, 0, <<>>)>>
  \o Flatten([i \in 1..Len(records) |-> SysRecord(records[i][1], records[i][2])])
  \o Eoh(TRUE)

RECURSIVE BlocksOf(_, _, _)
\* the sequences of ne blocks over these letters, total satellites in all
BlocksOf(letters, ne, total) ==
  IF ne = 0 THEN {<<>>}
  ELSE UNION {{<<b>> \o rest : b \in [1..n -> letters],
                              rest \in BlocksOf(letters, ne - 1, total - n)} :
                n \in 0..total}

\* the satellites of each block of a file: at most MaxEpochs blocks and
\* total satellites in all
Shapes(letters, total) == UNION {BlocksOf(letters, ne, total) : ne \in 0..MaxEpochs}

\* ------------------------------------------------------------------ tables
\* A row is [idx, val]: idx the tuple of its index values (<<n>> under the
\* default integer index), val a function from column names to values.
\* A table is [index, cols, rows]: index the names of the index columns
\* (<<>> for the default integer index), cols the data columns in order.

\* order of values as pandas sorts them: missing values last
ValLess(x, y) == IF x = NA THEN FALSE ELSE IF y = NA THEN TRUE ELSE x < y

RECURSIVE TupLess(_, _)
TupLess(a, b) ==
  IF a = <<>> \/ b = <<>> THEN a = <<>> /\ b # <<>>
  ELSE IF ValLess(a[1], b[1]) THEN TRUE
  ELSE IF ValLess(b[1], a[1]) THEN FALSE
  ELSE TupLess(Tail(a), Tail(b))

RECURSIVE SortK(_)
\* stable ascending sort of a sequence of <<key, item>> pairs
SortK(ps) ==
  IF ps = <<>> THEN <<>>
  ELSE LET s == SortK(SubSeq(ps, 1, Len(ps) - 1))
           p == ps[Len(ps)]
           n == Cardinality({i \in 1..Len(s) : ~TupLess(p[1], s[i][1])})
       IN  SubSeq(s, 1, n) \o <<p>> \o SubSeq(s, n + 1, Len(s))

Items(ps) == [i \in 1..Len(ps) |-> ps[i][2]]

\* sorted(names) of Python
SortedNames(names) == Items(SortK([i \in 1..Len(names) |-> <<names[i], names[i]>>]))

KeyOf(row, by) == [i \in 1..Len(by) |-> row.val[by[i]]]

\* faulty variant: the rows are left in the order of the concatenation
sort_values_skipped(rows, by) == rows

\* DataFrame.sort_values(by): rows ascending by the columns of by
sort_values(rows, by) == Items(SortK([i \in 1..Len(rows) |-> <<KeyOf(rows[i], by), rows[i]>>]))

\* DataFrame.reset_index(drop=True)
reset_index(rows) == [i \in 1..Len(rows) |-> [rows[i] EXCEPT !.idx = <<i - 1>>]]

Without(cols, drop) == SelectSeq(cols, LAMBDA c : c \notin Range(drop))

\* faulty variant: the levels of the key are filled in the opposite order
set_index_rows_swapped(rows, cols, keys) ==
  [i \in 1..Len(rows) |->
     [idx |-> [j \in 1..Len(keys) |-> rows[i].val[keys[Len(keys) + 1 - j]]],
      val |-> [c \in Range(Without(cols, keys)) |-> rows[i].val[c]]]]

\* DataFrame.set_index(keys): pandas checks no uniqueness of the key
\* (verify_integrity=False); the key columns leave the data columns
set_index_rows(rows, cols, keys) ==
  [i \in 1..Len(rows) |->
     [idx |-> KeyOf(rows[i], keys),
      val |-> [c \in Range(Without(cols, keys)) |-> rows[i].val[c]]]]

\* faulty variant: set_index called with verify_integrity=True
set_index_checked(rows, keys) ==
  \E i \in 1..Len(rows) : \E j \in 1..Len(rows) :
    i < j /\ KeyOf(rows[i], keys) = KeyOf(rows[j], keys)

\* lines 128 and 245 call DataFrame.set_index(keys, inplace=True) with the
\* default verify_integrity=False: two rows with one key raise nothing
set_index_raises(rows, keys) == FALSE

\* faulty variant: the rows are left in the order they had before the re-keying
sort_index_skipped(rows) == rows

\* DataFrame.sort_index()
sort_index(rows) == Items(SortK([i \in 1..Len(rows) |-> <<rows[i].idx, rows[i]>>]))

\* DataFrame.reset_index() of a keyed table, the inverse of set_index: the
\* levels of the key come back as the first columns, the index is 0..N-1
reset_index_keep(df) ==
  [index |-> <<>>,
   cols |-> df.index \o df.cols,
   rows |-> [i \in 1..Len(df.rows) |->
               [idx |-> <<i - 1>>,
                val |-> [c \in Range(df.index) \cup Range(df.cols) |->
                           IF c \in Range(df.cols) THEN df.rows[i].val[c]
                           ELSE df.rows[i].idx[CHOOSE j \in 1..Len(df.index) :
                                                 df.index[j] = c]]]]]

\* lines 127-129 and 244-246: if set_index: set_index, sort_index
ReKey(df, keys) ==
  IF keys = <<>> THEN df
  ELSE [index |-> keys,
        cols |-> Without(df.cols, keys),
        rows |-> sort_index(set_index_rows(df.rows, df.cols, keys))]

\* pandas' conversion of a fixed-width field: a field of spaces is missing
ParseField(t) == IF t = BLANK THEN NA ELSE t

\* Series.str[0] of a PRN
SysOf(prn) == IF prn = NA \/ prn = BLANK THEN NA ELSE prn \div (Base * Base)

\* (e, e + "_LLI", e + "_SSI") for every code, flattened
Triples(codes) == [j \in 1..(3 * Len(codes)) |-> <<codes[(j - 1) \div 3 + 1], (j - 1) % 3>>]

\* the fields pd.read_fwf cuts from one record with widths n * [14, 1, 1]:
\* field j (0-based) is component j % 3 of the field group j \div 3; a record
\* that ends before the field gives a missing value
Fields(cells, n) ==
  [j \in 1..(3 * n) |->
     IF (j - 1) \div 3 + 1 <= Len(cells)
     THEN ParseField(cells[(j - 1) \div 3 + 1][((j - 1) % 3) + 1])
     ELSE NA]

\* pd.read_fwf (skip_blank_lines=True, pandas 1.3 and later) skips the
\* records in which every field is blank
IsBlankRecord(cells, n) == \A j \in 1..(3 * n) : Fields(cells, n)[j] = NA

\* -------------------------------------------------------------- collaborator
\* operational.rinex_read_epoch(rnx_in, out_index=True): one
\* <<timestamp, 0-based line offset>> per epoch line, in file order
rinex_read_epoch(lines) ==
  LET offs == AscSeq({i \in 0..(Len(lines) - 1) : lines[i + 1].kind \in {"epoch2", "epoch3"}})
  IN  [n \in 1..Len(offs) |-> <<lines[offs[n] + 1].ts, offs[n]>>]

\* ------------------------------------------------------------ header scanner
\* faulty variant: i_end_header bound to the last line when no line has the marker
HeaderEnd_last(lines) ==
  LET hits == {i \in 0..(Len(lines) - 1) : lines[i + 1].kind = "eoh"}
  IN  IF hits = {} THEN Some(Len(lines) - 1)
      ELSE Some(CHOOSE i \in hits : \A j \in hits : i <= j)

\* lines 64-67 / 159-162: index of the first line containing END OF HEADER,
\* None when the loop ends without binding i_end_header
HeaderEnd(lines) ==
  LET hits == {i \in 0..(Len(lines) - 1) : lines[i + 1].kind = "eoh"}
  IN  IF hits = {} THEN None ELSE Some(CHOOSE i \in hits : \A j \in hits : i <= j)

\* number of lines the loop of lines 64-67 / 159-162 has looked at
LinesScanned(lines) ==
  IF HeaderEnd(lines) = None THEN Len(lines) ELSE HeaderEnd(lines)[1] + 1

\* lines 72-76: the tokens of the # / TYPES OF OBSERV lines of the header
ObsAllList_raw(header) ==
  Flatten([i \in 1..Len(header) |->
             IF header[i].kind = "types2" THEN header[i].items ELSE <<>>])

\* lines 77-78: the sorted list of column names
ObsNames(raw) == SortedNames(Triples(Tail(raw)))

\* ------------------------------------------------------------ RINEX 2 decoder
RECURSIVE LStrip(_)
LStrip(cs) == IF cs # <<>> /\ Head(cs) = 0 THEN LStrip(Tail(cs)) ELSE cs

RECURSIVE RStrip(_)
RStrip(cs) ==
  IF cs # <<>> /\ cs[Len(cs)] = 0 THEN RStrip(SubSeq(cs, 1, Len(cs) - 1)) ELSE cs

\* str.strip(): the text without its leading and trailing blanks
Strip(cs) == RStrip(LStrip(cs))

\* a receiver clock offset, the F12.9 field " 0.000123456" of columns 68..79
ClockText ==
  <<0, Digit(0), Dot, Digit(0), Digit(0), Digit(0), Digit(1), Digit(2), Digit(3),
    Digit(4), Digit(5), Digit(6)>>

\* l[32:].strip() cut into identifiers: the satellite list of the line
SatText(l) ==
  IF l.kind \in {"epoch2", "satcont"}
  THEN LET ids == Flatten([i \in 1..Len(l.items) |-> CharsOf(l.items[i])])
       IN  Strip(IF l.tag = "clk"
                 THEN ids \o [i \in 1..(3 * SatsPerLine - Len(ids)) |-> 0] \o ClockText
                 ELSE ids)
  ELSE <<>>

RECURSIVE sats_loop(_, _, _, _, _, _, _)
\* the loop of _sats_find from line il on; None when it ends without return
sats_loop(Lines_inp, il, iline_bloc, nlines_bloc, nsat, lineconcat, epoc) ==
  IF il >= Len(Lines_inp) THEN None
  ELSE LET l == Lines_inp[il + 1]
           bool_epoch == l.kind = "epoch2"
           nsat1 == IF bool_epoch THEN l.num ELSE nsat
           ib1 == IF bool_epoch THEN 0 ELSE iline_bloc
           nb1 == IF bool_epoch THEN Ceil(nsat1, SatsPerLine) ELSE nlines_bloc
           lc1 == IF bool_epoch THEN <<>> ELSE lineconcat
           ep1 == IF bool_epoch THEN l.ts ELSE epoc
           take == ib1 <= nb1
           lc2 == IF take THEN lc1 \o SatText(l) ELSE lc1
           ib2 == IF take THEN ib1 + 1 ELSE ib1
       IN  IF ib2 = nb1
           THEN Some([epoc |-> ep1, nsat |-> nsat1, lineconcat |-> lc2,
                      Sats_split |-> [n \in 1..nsat1 |->
                                        Tok(PySlice(lc2, 3 * (n - 1), Some(3 * n)))],
                      il |-> il])
           ELSE sats_loop(Lines_inp, il + 1, ib2, nb1, nsat1, lc2, ep1)

\* lines 90 and 204: the first line of the block of epoch iepoc, for the
\* reader of version v
iline_start(v, epochs, iepoc) ==
  IF v = 2 THEN epochs[iepoc + 1][2] ELSE epochs[iepoc + 1][2] + 1

\* faulty variant: every block runs to the end of the file
iline_end_last(epochs, iepoc) == None

\* lines 91-94 and 205-208: None for the last epoch, else the offset of the
\* next one
iline_end(epochs, iepoc) ==
  IF iepoc = Len(epochs) - 1 THEN None ELSE Some(epochs[iepoc + 2][2])

\* _sats_find, lines 276-306
sats_find(Lines_inp) == sats_loop(Lines_inp, 0, 0, 0 - 1, 0, <<>>, 0)

\* lines 103-106: the record of each satellite, its physical lines joined
ObsMerge(Lines_epoc, iline_sats_end, iend, nlines_for_obs, nsat) ==
  LET Lines_obs == PySlice(Lines_epoc, iline_sats_end + 1, iend)
  IN  [n \in 1..nsat |->
         Flatten([j \in 1..Len(PySlice(Lines_obs, nlines_for_obs * (n - 1),
                                       Some(nlines_for_obs * (n - 1) + nlines_for_obs))) |->
                    PySlice(Lines_obs, nlines_for_obs * (n - 1),
                            Some(nlines_for_obs * (n - 1) + nlines_for_obs))[j].items])]

\* line 111: pd.read_fwf over the records: the fields of every record that
\* is not blank, in order
read_fwf(records, n) ==
  LET kept == SelectSeq(records, LAMBDA r : ~IsBlankRecord(r, n))
  IN  [i \in 1..Len(kept) |-> Fields(kept[i], n)]

\* lines 112-115: the frame of one epoch block
EpochFrame2(fields, names, Sats_split, epoch) ==
  [i \in 1..Len(fields) |->
     [idx |-> <<i - 1>>,
      val |-> [c \in Range(names) \cup {ColPrn, ColSys, ColEpoch} |->
                 IF c = ColPrn THEN Sats_split[i]
                 ELSE IF c = ColSys THEN SysOf(Sats_split[i])
                 ELSE IF c = ColEpoch THEN epoch
                 ELSE fields[i][CHOOSE j \in 1..Len(names) : names[j] = c]]]]

\* DataFrame.reindex(cols, axis=1)
reindex(rows, cols) ==
  [i \in 1..Len(rows) |->
     [rows[i] EXCEPT !.val = [c \in Range(cols) |->
                                IF c \in DOMAIN rows[i].val THEN rows[i].val[c] ELSE NA]]]

\* faulty variant: the columns stay in the order of the epoch frames, line 122 left out
Final2_no_reindex(stk, names) ==
  [index |-> <<>>,
   cols |-> names \o <<ColPrn, ColSys, ColEpoch>>,
   rows |-> reset_index(sort_values(Flatten(stk), <<ColEpoch, ColPrn>>))]

\* lines 121-124: concat, reorder the columns, sort, reset the index
Final2(stk, names) ==
  LET cols == <<ColEpoch, ColSys, ColPrn>> \o names
  IN  [index |-> <<>>,
       cols |-> cols,
       rows |-> reset_index(sort_values(reindex(Flatten(stk), cols), <<ColEpoch, ColPrn>>))]

\* --------------------------------------------------------- RINEX 3/4 header
\* a SYS / # / OBS TYPES entry: tag is the first character class ("L" a
\* system letter, " " a blank), items the tokens of the line
JoinSys(a, b) == [a EXCEPT !.items = a.items \o b.items]

\* list.remove(x): the list without its first element equal to x, None when
\* there is none
ListRemove(list, x) ==
  LET hits == {i \in 1..Len(list) : list[i] = x}
  IN  IF hits = {} THEN None
      ELSE LET p == CHOOSE i \in hits : \A j \in hits : i <= j
           IN  Some(SubSeq(list, 1, p - 1) \o SubSeq(list, p + 1, Len(list)))

RECURSIVE MergeLoop(_, _)
\* lines 174-177, run from position il of the list being changed: Some(list)
\* at the end of the loop, None when list.remove raises
MergeLoop(Lines_sys, il) ==
  IF il >= Len(Lines_sys) THEN Some(Lines_sys)
  ELSE LET l == Lines_sys[il + 1]
       IN  IF l.tag = " "
           THEN LET prev == IF il = 0 THEN Len(Lines_sys) ELSE il
                    joined == [Lines_sys EXCEPT ![prev] = JoinSys(@, l)]
                    removed == ListRemove(joined, l)
                IN  IF removed = None THEN None ELSE MergeLoop(removed[1], il + 1)
           ELSE MergeLoop(Lines_sys, il + 1)

\* dict[key] = value of an insertion-ordered dict kept as a sequence
DictSet(d, e) ==
  IF \E i \in 1..Len(d) : d[i].sys = e.sys
  THEN [i \in 1..Len(d) |-> IF d[i].sys = e.sys THEN e ELSE d[i]]
  ELSE Append(d, e)

\* lines 185-187: int(Sysobs[1]) needs a second token that is a number; the
\* second token of an entry that starts with a blank is an observable code
EntryOk(l) == l.tag = "L" /\ Len(l.items) >= 2

RECURSIVE DictLoop(_, _)
\* lines 184-193 over the entries: the dict of <<sys, nobs, obs>>
DictLoop(Lines_sys, d) ==
  IF Lines_sys = <<>> THEN d
  ELSE LET Sysobs == Head(Lines_sys).items
       IN  DictLoop(Tail(Lines_sys),
                    DictSet(d, [sys |-> Sysobs[1], nobs |-> Sysobs[2],
                                obs |-> SubSeq(Sysobs, 3, Len(Sysobs))]))

\* line 192: some system's code list is not as long as its declared count
Mismatch(Lines_sys) ==
  \E i \in 1..Len(Lines_sys) : Len(Lines_sys[i].items) - 2 # Lines_sys[i].items[2]

\* lines 189-190: prn, then the triple of every code
dict_sys_use(e) == <<ColPrn>> \o Triples(e.obs)

\* line 197
nobs_max_of(d) == CHOOSE m \in {d[i].nobs : i \in 1..Len(d)} :
                    \A i \in 1..Len(d) : d[i].nobs <= m

\* --------------------------------------------------------- RINEX 3/4 decoder
\* line 215: pd.read_fwf with widths [3] + nobs_max * [14, 1, 1] over the
\* lines of the block: the PRN prefix, then the fields
read_fwf3(Lines_epoc, n) ==
  [i \in 1..Len(Lines_epoc) |-> <<Lines_epoc[i].num>> \o Fields(Lines_epoc[i].items, n)]

\* lines 222-223 raise when a system has more names than the frame has columns
NamesFit(d, n) == \A i \in 1..Len(d) : Len(dict_sys_use(d[i])) <= 1 + 3 * n

\* the columns of pd.concat over frames with these columns: their union in
\* order of first appearance
RECURSIVE UnionCols(_)
UnionCols(colss) ==
  IF colss = <<>> THEN <<>>
  ELSE LET rest == UnionCols(SubSeq(colss, 1, Len(colss) - 1))
       IN  rest \o Without(colss[Len(colss)], rest)

ColsOk(d) == UnionCols([i \in 1..Len(d) |-> dict_sys_use(d[i])])

\* line 222: the 0-based row labels of the lines of system sys, ascending
RowsOfSys(DFepoch, sys) ==
  AscSeq({p \in 0..(Len(DFepoch) - 1) : SysOf(DFepoch[p + 1][1]) = sys})

\* lines 219-226: the row labels of DFepoch_ok, system by system
LabelsOk(DFepoch, d) == Flatten([i \in 1..Len(d) |-> RowsOfSys(DFepoch, d[i].sys)])

\* line 222: .iloc[:, :len(dict_sys_use[sys])]: the number of leading columns
\* of DFepoch kept for the rows of entry e
KeptCols(e, n) == Min(Len(dict_sys_use(e)), 1 + 3 * n)

\* faulty variant: every row is labelled with the names of all systems, no column cut
OkValue_unfiltered(DFepoch, d, n, p, c) ==
  LET names == ColsOk(d)
      hits == {j \in 1..Min(Len(names), 1 + 3 * n) : names[j] = c}
  IN  IF hits = {} THEN NA ELSE DFepoch[p + 1][CHOOSE j \in hits : TRUE]

\* the value of column c in the row of DFepoch_ok cut from line p
OkValue(DFepoch, d, n, p, c) ==
  LET e == d[CHOOSE i \in 1..Len(d) : d[i].sys = SysOf(DFepoch[p + 1][1])]
      names == dict_sys_use(e)
      hits == {j \in 1..KeptCols(e, n) : names[j] = c}
  IN  IF hits = {} THEN NA ELSE DFepoch[p + 1][CHOOSE j \in hits : TRUE]

\* faulty variant: the parts are put side by side by position, not by label
AlignedByPosition(labels, sorted) == labels

\* line 230: pd.concat([col_epoch, col_sys, DFepoch_ok], axis=1) aligns its
\* parts on their row labels: col_epoch carries 0..k-1, the two others the
\* labels of DFepoch_ok.  The labels of the result are the union, either
\* sorted or in order of appearance, as the pandas release has it.
AlignedLabels(labels, sorted) ==
  LET k == Len(labels)
  IN  IF sorted THEN AscSeq((0..(k - 1)) \cup Range(labels))
      ELSE [i \in 1..k |-> i - 1] \o SelectSeq(labels, LAMBDA x : x >= k)

\* lines 217-230: the frame of one epoch block
EpochFrame3(DFepoch, d, n, epoch, sorted) ==
  LET labels == LabelsOk(DFepoch, d)
      out == AlignedLabels(labels, sorted)
  IN  [i \in 1..Len(out) |->
         [idx |-> <<out[i]>>,
          val |-> [c \in {ColEpoch, ColSys} \cup Range(ColsOk(d)) |->
                     IF c = ColEpoch
                     THEN (IF out[i] < Len(labels) THEN epoch ELSE NA)
                     ELSE IF out[i] \notin Range(labels) THEN NA
                     ELSE IF c = ColSys THEN SysOf(DFepoch[out[i] + 1][1])
                     ELSE OkValue(DFepoch, d, n, out[i], c)]]]

\* lines 235-242: concat, reset the index
Final3(stk, d) ==
  [index |-> <<>>,
   cols |-> <<ColEpoch, ColSys>> \o ColsOk(d),
   rows |-> reset_index(Flatten(stk))]

\* -------------------------------------------------------------- input family
\* one damaged place of a file: a blank value field, a blank field group, a
\* line cut before field group k, or a missing line
Damaged(lines, d) ==
  IF d.kind = "drop"
  THEN SubSeq(lines, 1, d.line - 1) \o SubSeq(lines, d.line + 1, Len(lines))
  ELSE [lines EXCEPT ![d.line].items =
          IF d.kind = "blankval" THEN [@ EXCEPT ![d.k] = <<BLANK, @[2], @[3]>>]
          ELSE IF d.kind = "blankcell" THEN [@ EXCEPT ![d.k] = <<BLANK, BLANK, BLANK>>]
          ELSE SubSeq(@, 1, d.k - 1)]

Damages(lines) ==
  {[kind |-> kd, line |-> i, k |-> k] :
     kd \in {"blankval", "blankcell", "cut"},
     i \in {i \in 1..Len(lines) : lines[i].kind \in {"obs2", "sat3"}},
     k \in 1..(ObsPerLine + 1)}
  \cup {[kind |-> "drop", line |-> i, k |-> 0] :
          i \in {i \in 1..Len(lines) : lines[i].kind = "obs2"}}

DamagesOf(f) == {d \in Damages(f) : d.kind # "drop" => d.k <= Len(f[d.line].items)}

Keys == {<<ColEpoch>>, <<ColPrn>>, <<ColEpoch, ColPrn>>}

\* RINEX 2 headers: <<declared count, codes>>
Canon2 == {<<n, Ident(n)>> : n \in 1..MaxObs} \cup {<<n, Rev(n)>> : n \in 2..MaxObs}
AllHdr2 == {<<decl, Ident(n)>> : decl \in 1..MaxObs, n \in 0..MaxObs}
Plain2 == {<<MaxObs, Ident(MaxObs)>>, <<1, Ident(1)>>,
           <<ObsPerLine + 1, Ident(ObsPerLine + 1)>>}

Letters2 == {Letter.G, Letter.R}

File2(h, hc, shape, rev) == Header2(h, hc[1], hc[2]) \o Body2(shape, rev, hc[1])

\* RINEX 3/4 headers: sequences of <<letter, declared count, codes>>
Canon3 ==
  {<<<<Letter.G, MaxObs, Ident(MaxObs)>>>>,
   <<<<Letter.G, MaxObs, Ident(MaxObs)>>, <<Letter.R, 1, Ident(1)>>>>,
   <<<<Letter.R, 1, Ident(1)>>, <<Letter.G, MaxObs, Ident(MaxObs)>>>>}

AllHdr3 ==
  {<<<<Letter.G, dg, Ident(lg)>>>> : dg \in 1..MaxObs, lg \in 0..MaxObs}
  \cup {<<<<Letter.G, dg, Ident(lg)>>, <<Letter.R, 1, Ident(lr)>>>> :
          dg \in 1..MaxObs, lg \in 0..MaxObs, lr \in 0..MaxObs}

Plain3 == <<<<Letter.G, MaxObs, Ident(MaxObs)>>, <<Letter.R, 1, Ident(1)>>>>

Letters3 == {Letter.G, Letter.R, Letter.X}

File3(h, systems, shape, rev) == Header3(h, systems) \o Body3(shape, rev, MaxObs)

\* ---------------------------------------------------------------------- state
VARIABLES
  version,      \* 2: read_rinex2_obs runs, 3: read_rinex3_obs
  LINES,        \* FILE.readlines()
  EPOCHS,       \* the epoch index
  set_index,    \* the argument: <<>> for None, else the key columns
  pc,           \* "scan", "catalog", "epochs", "done", "error"
  nscanned,     \* lines the header loop has looked at
  i_end_header, \* None while unbound
  ObsAllList,   \* RINEX 2: the sorted column names
  nobs,         \* RINEX 2: the declared count
  dict_sys,     \* RINEX 3/4: the entries <<sys, nobs, obs>> in dict order
  warned,       \* the WARN line of line 193 was printed
  iepoc,        \* the next epoch of the epoch loop
  DFall_stk,    \* the frames of the epochs read so far
  DFrnxobs,     \* the returned table, None until the return
  err,          \* the exception that ended the call, "" while there is none
  call,         \* the locals of a running _sats_find, None outside of it
  bloc_tuple,   \* what _sats_find returned: Some(tuple), None for nothing
  sats_used_list,  \* compar_orbit: the argument, strings as character lists
  D1window,        \* compar_orbit: the <<const, sv>> of the rows of input 1
  D2window,        \* compar_orbit: the <<const, sv>> of the rows of input 2
  isat,            \* compar_orbit: entries the loop of line 100 has handled
  const_used_list, \* compar_orbit: the constellations to compare
  sv_used_list,    \* compar_orbit: the satellites listed one by one
  iconst,          \* compar_orbit: constellations the loop of line 190 did
  Diff_sat_stk,    \* compar_orbit: the 'sat' of the differences stacked
  out_means_summary, \* compar_sinex: the argument
  out_meta,          \* compar_sinex: the argument, as line 757 leaves it
  out_dataframe,     \* compar_sinex: the argument
  wwwwd,             \* compar_sinex: None while unbound, else Some(string)
  STATCommon,        \* compar_sinex: the stations of both inputs
  Ddiff,             \* compar_sinex: the column of each name of col_names
  output,            \* compar_sinex: the list of lines 764-781
  output_DF          \* compar_sinex: None, or Some(the summary table)

vars == <<version, LINES, EPOCHS, set_index, pc, nscanned, i_end_header,
          ObsAllList, nobs, dict_sys, warned, iepoc, DFall_stk, DFrnxobs, err,
          call, bloc_tuple, sats_used_list, D1window, D2window, isat,
          const_used_list, sv_used_list, iconst, Diff_sat_stk,
          out_means_summary, out_meta, out_dataframe, wwwwd, STATCommon,
          Ddiff, output, output_DF>>

\* the state of a call of _sats_find that is followed step by step
satsvars == <<call, bloc_tuple>>

\* the state of a call of compar_orbit
orbitvars == <<sats_used_list, D1window, D2window, isat, const_used_list,
               sv_used_list, iconst, Diff_sat_stk>>

\* no call of compar_orbit is followed
NoOrbit ==
  /\ sats_used_list = <<>>
  /\ D1window = {}
  /\ D2window = {}
  /\ isat = 0
  /\ const_used_list = <<>>
  /\ sv_used_list = <<>>
  /\ iconst = 0
  /\ Diff_sat_stk = <<>>

\* the state of a call of compar_sinex
sinexvars == <<out_means_summary, out_meta, out_dataframe, wwwwd, STATCommon,
               Ddiff, output, output_DF>>

\* no call of compar_sinex is followed
NoSinex ==
  /\ out_means_summary = FALSE
  /\ out_meta = FALSE
  /\ out_dataframe = FALSE
  /\ wwwwd = None
  /\ STATCommon = {}
  /\ Ddiff = <<>>
  /\ output = <<>>
  /\ output_DF = None

\* the state of the readers apart from pc and err
readervars == <<version, LINES, EPOCHS, set_index, nscanned, i_end_header,
                ObsAllList, nobs, dict_sys, warned, iepoc, DFall_stk, DFrnxobs>>

\* the state at the call, the file and the argument given
Start(v, lines, key) ==
  /\ version = v
  /\ LINES = lines
  /\ set_index = key
  /\ EPOCHS = rinex_read_epoch(lines)
  /\ pc = "scan"
  /\ nscanned = 0
  /\ i_end_header = None
  /\ ObsAllList = <<>>
  /\ nobs = 0
  /\ dict_sys = <<>>
  /\ warned = FALSE
  /\ iepoc = 0
  /\ DFall_stk = <<>>
  /\ DFrnxobs = None
  /\ err = ""
  /\ call = None
  /\ bloc_tuple = None
  /\ NoOrbit
  /\ NoSinex

\* well-formed RINEX 2 files, every order of satellites and epochs
Init2Core ==
  \E hc \in Canon2, rev \in BOOLEAN :
    \/ \E shape \in Shapes(Letters2, MaxSatsTotal) :
         Start(2, File2(TRUE, hc, shape, rev), <<>>)
    \/ \E shape \in Shapes(Letters2, MaxSatsTotal - 1), key \in Keys :
         Start(2, File2(TRUE, hc, shape, rev), key)

\* headers without END OF HEADER or with a count that is not the list length
Init2Odd ==
  \E h \in BOOLEAN, hc \in AllHdr2, shape \in Shapes(Letters2, MaxSatsTotal - 1) :
    Start(2, File2(h, hc, shape, FALSE), <<>>)

\* files damaged in one place, with records of one line and of two lines
Init2Damaged ==
  \E hc \in Plain2, shape \in Shapes(Letters2, MaxSatsTotal - 1) :
    \/ Start(2, File2(TRUE, hc, shape, FALSE), <<>>)
    \/ \E d \in DamagesOf(File2(TRUE, hc, shape, FALSE)) :
         Start(2, Damaged(File2(TRUE, hc, shape, FALSE), d), <<>>)

Init3Core ==
  \E systems \in Canon3, rev \in BOOLEAN :
    \/ \E shape \in Shapes(Letters3, MaxSatsTotal) :
         Start(3, File3(TRUE, systems, shape, rev), <<>>)
    \/ \E shape \in Shapes(Letters3, MaxSatsTotal - 1), key \in Keys :
         Start(3, File3(TRUE, systems, shape, rev), key)

Init3Odd ==
  \E h \in BOOLEAN, systems \in AllHdr3,
     shape \in Shapes({Letter.G, Letter.R}, MaxSatsTotal - 1) :
    Start(3, File3(h, systems, shape, FALSE), <<>>)

Init3Damaged ==
  \E shape \in Shapes({Letter.G, Letter.R}, MaxSatsTotal - 1) :
    \E d \in DamagesOf(File3(TRUE, Plain3, shape, FALSE)) :
      Start(3, Damaged(File3(TRUE, Plain3, shape, FALSE), d), <<>>)

\* headers with continuation lines: G alone, G before R, G after R, each
\* record with up to MaxContLines continuation lines
Init3Cont ==
  \E kg \in 0..MaxContLines, kr \in 0..MaxContLines :
    \E records \in {<<<<Letter.G, kg>>>>,
                    <<<<Letter.G, kg>>, <<Letter.R, kr>>>>,
                    <<<<Letter.R, kr>>, <<Letter.G, kg>>>>} :
      \E shape \in Shapes({Letter.G, Letter.R}, 1) :
        Start(3, Header3Cont(records) \o Body3(shape, FALSE, MaxContLines + 1), <<>>)

Init ==
  \/ Init2Core
  \/ Init2Odd
  \/ Init2Damaged
  \/ Init3Core
  \/ Init3Odd
  \/ Init3Damaged
  \/ Init3Cont

Raise(e) ==
  /\ pc' = "error"
  /\ err' = e

\* lines 64-69 / 159-164
ScanHeader ==
  /\ pc = "scan"
  /\ nscanned' = LinesScanned(LINES)
  /\ i_end_header' = HeaderEnd(LINES)
  /\ IF HeaderEnd(LINES) = None
     THEN Raise("UnboundLocalError")
     ELSE pc' = "catalog" /\ err' = err
  /\ UNCHANGED satsvars
  /\ UNCHANGED orbitvars
  /\ UNCHANGED sinexvars
  /\ UNCHANGED <<version, LINES, EPOCHS, set_index, ObsAllList, nobs, dict_sys,
                 warned, iepoc, DFall_stk, DFrnxobs>>

\* lines 69-84
Catalog2 ==
  /\ pc = "catalog"
  /\ version = 2
  /\ LET raw == ObsAllList_raw(PySlice(LINES, 0, Some(i_end_header[1] + 1)))
     IN  IF raw = <<>>
         THEN Raise("IndexError") /\ UNCHANGED <<ObsAllList, nobs>>
         ELSE /\ ObsAllList' = ObsNames(raw)
              /\ nobs' = raw[1]
              /\ pc' = "epochs"
              /\ err' = err
  /\ UNCHANGED satsvars
  /\ UNCHANGED orbitvars
  /\ UNCHANGED sinexvars
  /\ UNCHANGED <<version, LINES, EPOCHS, set_index, nscanned, i_end_header,
                 dict_sys, warned, iepoc, DFall_stk, DFrnxobs>>

\* lines 87-117, one pass of the epoch loop
ReadEpoch2 ==
  /\ pc = "epochs"
  /\ version = 2
  /\ iepoc < Len(EPOCHS)
  /\ LET epoch == EPOCHS[iepoc + 1][1]
         Lines_epoc == PySlice(LINES, iline_start(2, EPOCHS, iepoc),
                               iline_end(EPOCHS, iepoc))
         found == sats_find(Lines_epoc)
         nlines_for_obs == Ceil(nobs, ObsPerLine)
         records == ObsMerge(Lines_epoc, found[1].il, iline_end(EPOCHS, iepoc),
                             nlines_for_obs, found[1].nsat)
         DFepoch == read_fwf(records, nobs)
     IN  IF found = None THEN Raise("TypeError") /\ UNCHANGED <<iepoc, DFall_stk>>
         ELSE IF DFepoch = <<>>
         THEN Raise("EmptyDataError") /\ UNCHANGED <<iepoc, DFall_stk>>
         ELSE IF Len(ObsAllList) # 3 * nobs \/ Len(DFepoch) # found[1].nsat
         THEN Raise("ValueError") /\ UNCHANGED <<iepoc, DFall_stk>>
         ELSE /\ DFall_stk' = Append(DFall_stk,
                                     EpochFrame2(DFepoch, ObsAllList,
                                                 found[1].Sats_split, epoch))
              /\ iepoc' = iepoc + 1
              /\ UNCHANGED <<pc, err>>
  /\ UNCHANGED satsvars
  /\ UNCHANGED orbitvars
  /\ UNCHANGED sinexvars
  /\ UNCHANGED <<version, LINES, EPOCHS, set_index, nscanned, i_end_header,
                 ObsAllList, nobs, dict_sys, warned, DFrnxobs>>

\* lines 121-131
Return2 ==
  /\ pc = "epochs"
  /\ version = 2
  /\ iepoc = Len(EPOCHS)
  /\ IF DFall_stk = <<>>
     THEN Raise("ValueError") /\ UNCHANGED DFrnxobs
     ELSE IF set_index # <<>>
             /\ set_index_raises(Final2(DFall_stk, ObsAllList).rows, set_index)
     THEN Raise("ValueError") /\ UNCHANGED DFrnxobs
     ELSE /\ DFrnxobs' = Some(ReKey(Final2(DFall_stk, ObsAllList), set_index))
          /\ pc' = "done"
          /\ err' = err
  /\ UNCHANGED satsvars
  /\ UNCHANGED orbitvars
  /\ UNCHANGED sinexvars
  /\ UNCHANGED <<version, LINES, EPOCHS, set_index, nscanned, i_end_header,
                 ObsAllList, nobs, dict_sys, warned, iepoc, DFall_stk>>

\* lines 164-197
Catalog3 ==
  /\ pc = "catalog"
  /\ version = 3
  /\ LET header == PySlice(LINES, 0, Some(i_end_header[1] + 1))
         Lines_sys == SelectSeq(header, LAMBDA l : l.kind = "sys3")
         merged == MergeLoop(Lines_sys, 0)
         bad == {i \in 1..Len(merged[1]) : ~EntryOk(merged[1][i])}
         upto == IF bad = {} THEN Len(merged[1])
                 ELSE (CHOOSE i \in bad : \A j \in bad : i <= j) - 1
     IN  IF merged = None
         THEN Raise("ValueError") /\ UNCHANGED <<dict_sys, warned>>
         ELSE /\ warned' = Mismatch(SubSeq(merged[1], 1, upto))
              /\ dict_sys' = DictLoop(SubSeq(merged[1], 1, upto), <<>>)
              /\ IF bad # {} \/ merged[1] = <<>>
                 THEN Raise("ValueError")
                 ELSE pc' = "epochs" /\ err' = err
  /\ UNCHANGED satsvars
  /\ UNCHANGED orbitvars
  /\ UNCHANGED sinexvars
  /\ UNCHANGED <<version, LINES, EPOCHS, set_index, nscanned, i_end_header,
                 ObsAllList, nobs, iepoc, DFall_stk, DFrnxobs>>

\* lines 201-232, one pass of the epoch loop
ReadEpoch3 ==
  /\ pc = "epochs"
  /\ version = 3
  /\ iepoc < Len(EPOCHS)
  /\ LET epoch == EPOCHS[iepoc + 1][1]
         Lines_epoc == PySlice(LINES, iline_start(3, EPOCHS, iepoc),
                               iline_end(EPOCHS, iepoc))
         nobs_max == nobs_max_of(dict_sys)
         DFepoch == read_fwf3(Lines_epoc, nobs_max)
     IN  IF DFepoch = <<>>
         THEN Raise("EmptyDataError") /\ UNCHANGED <<iepoc, DFall_stk>>
         ELSE IF ~NamesFit(dict_sys, nobs_max)
         THEN Raise("ValueError") /\ UNCHANGED <<iepoc, DFall_stk>>
         ELSE /\ \E sorted \in BOOLEAN :
                   DFall_stk' = Append(DFall_stk,
                                       EpochFrame3(DFepoch, dict_sys, nobs_max,
                                                   epoch, sorted))
              /\ iepoc' = iepoc + 1
              /\ UNCHANGED <<pc, err>>
  /\ UNCHANGED satsvars
  /\ UNCHANGED orbitvars
  /\ UNCHANGED sinexvars
  /\ UNCHANGED <<version, LINES, EPOCHS, set_index, nscanned, i_end_header,
                 ObsAllList, nobs, dict_sys, warned, DFrnxobs>>

\* lines 235-248
Return3 ==
  /\ pc = "epochs"
  /\ version = 3
  /\ iepoc = Len(EPOCHS)
  /\ IF DFall_stk = <<>>
     THEN Raise("ValueError") /\ UNCHANGED DFrnxobs
     ELSE IF set_index # <<>>
             /\ set_index_raises(Final3(DFall_stk, dict_sys).rows, set_index)
     THEN Raise("ValueError") /\ UNCHANGED DFrnxobs
     ELSE /\ DFrnxobs' = Some(ReKey(Final3(DFall_stk, dict_sys), set_index))
          /\ pc' = "done"
          /\ err' = err
  /\ UNCHANGED satsvars
  /\ UNCHANGED orbitvars
  /\ UNCHANGED sinexvars
  /\ UNCHANGED <<version, LINES, EPOCHS, set_index, nscanned, i_end_header,
                 ObsAllList, nobs, dict_sys, warned, iepoc, DFall_stk>>

Next ==
  \/ ScanHeader
  \/ Catalog2
  \/ ReadEpoch2
  \/ Return2
  \/ Catalog3
  \/ ReadEpoch3
  \/ Return3

Spec == Init /\ [][Next]_vars

\* ------------------------------------------------- _sats_find, line by line
\* the lines of an epoch block given to _sats_find: an EPOCH/SAT line that
\* declares nsat satellites of one system letter (0: the blank of a file
\* without system letters), with or without a receiver clock offset, its
\* continuation lines, and nobsl observation lines
SatBlock(nsat, letter, clk, nobsl) ==
  LET ids == [i \in 1..nsat |-> PRN(letter, i)]
  IN  <<Line("epoch2", IF clk THEN "clk" ELSE "", nsat, 1,
             PySlice(ids, 0, Some(SatsPerLine)))>>
      \o [j \in 1..(Ceil(nsat, SatsPerLine) - 1) |->
            Line("satcont", "", 0, 0,
                 PySlice(ids, SatsPerLine * j, Some(SatsPerLine * (j + 1))))]
      \o [j \in 1..nobsl |-> Line("obs2", "", 0, 0, Cells(1, j - 1, 0, 1))]

\* the call _sats_find(Lines_epoc) of line 100, at line 276
StartSats(block) ==
  /\ version = 2
  /\ LINES = block
  /\ set_index = <<>>
  /\ EPOCHS = <<>>
  /\ pc = "sats"
  /\ nscanned = 0
  /\ i_end_header = None
  /\ ObsAllList = <<>>
  /\ nobs = 0
  /\ dict_sys = <<>>
  /\ warned = FALSE
  /\ iepoc = 0
  /\ DFall_stk = <<>>
  /\ DFrnxobs = None
  /\ err = ""
  /\ call = Some([Lines_inp |-> block, il |-> 0, iline_bloc |-> 0,
                  nlines_bloc |-> 0 - 1, nsat |-> None, lineconcat |-> None,
                  epoc |-> None])
  /\ bloc_tuple = None
  /\ NoOrbit
  /\ NoSinex

InitSats ==
  \/ \E nsat \in 0..(SatsPerLine * MaxSatLines), letter \in {Letter.G, 0},
        clk \in BOOLEAN, nobsl \in 0..1 :
       \/ StartSats(SatBlock(nsat, letter, clk, nobsl))
       \/ StartSats(<<Line("obs2", "", 0, 0, Cells(1, 0, 0, 1))>>
                    \o SatBlock(nsat, letter, clk, nobsl))
  \* the end of the file cuts the block after k lines
  \/ \E nsat \in 0..(SatsPerLine * MaxSatLines), k \in 1..MaxSatLines :
       StartSats(PySlice(SatBlock(nsat, Letter.G, FALSE, 0), 0, Some(k)))
  \* no EPOCH/SAT line at all
  \/ \E k \in 0..(MaxSatLines + 1) :
       StartSats([j \in 1..k |-> Line("obs2", "", 0, 0, Cells(1, j - 1, 0, 1))])

\* lines 286-293: the locals after the test of the epoch pattern on line l
AtEpochLine(c, l) ==
  IF l.kind = "epoch2"
  THEN [c EXCEPT !.nsat = Some(l.num),
                 !.iline_bloc = 0,
                 !.nlines_bloc = Ceil(l.num, SatsPerLine),
                 !.lineconcat = Some(<<>>),
                 !.epoc = Some(l.ts)]
  ELSE c

\* lines 296-299: the text of line l from column 32 on is taken
TakeLine(c, l) ==
  IF c.iline_bloc <= c.nlines_bloc
  THEN [c EXCEPT !.lineconcat = Some(@[1] \o SatText(l)),
                 !.iline_bloc = @ + 1]
  ELSE c

\* lines 304-305: the tuple that is returned
BlocTuple(c) ==
  [epoc |-> c.epoc[1], nsat |-> c.nsat[1], lineconcat |-> c.lineconcat[1],
   Sats_split |-> [n \in 1..c.nsat[1] |->
                     Tok(PySlice(c.lineconcat[1], 3 * (n - 1), Some(3 * n)))],
   il |-> c.il]

\* lines 278-306: the body of the loop for line il
SatsLine ==
  /\ pc = "sats"
  /\ call[1].il < Len(call[1].Lines_inp)
  /\ \E c \in {TakeLine(AtEpochLine(call[1], call[1].Lines_inp[call[1].il + 1]),
                        call[1].Lines_inp[call[1].il + 1])} :
       IF c.iline_bloc = c.nlines_bloc
       THEN /\ call' = Some(c)
            /\ bloc_tuple' = Some(BlocTuple(c))
            /\ pc' = "returned"
       ELSE /\ call' = Some([c EXCEPT !.il = @ + 1])
            /\ UNCHANGED <<pc, bloc_tuple>>
  /\ UNCHANGED err
  /\ UNCHANGED readervars
  /\ UNCHANGED orbitvars
  /\ UNCHANGED sinexvars

\* the loop of line 278 is over and the function ends without a return
SatsEnd ==
  /\ pc = "sats"
  /\ call[1].il = Len(call[1].Lines_inp)
  /\ pc' = "returned"
  /\ UNCHANGED <<call, bloc_tuple, err>>
  /\ UNCHANGED readervars
  /\ UNCHANGED orbitvars
  /\ UNCHANGED sinexvars

\* faulty variant: the caller takes nothing for a tuple
UnpackFails_never(t) == FALSE

\* line 100: a function that ended without a return gave None, and None
\* cannot be unpacked into the five names
UnpackFails(t) == t = None

\* line 100: the caller unpacks the five values
Unpack ==
  /\ pc = "returned"
  /\ IF UnpackFails(bloc_tuple) THEN Raise("TypeError") ELSE pc' = "unpacked" /\ err' = err
  /\ UNCHANGED <<call, bloc_tuple>>
  /\ UNCHANGED readervars
  /\ UNCHANGED orbitvars
  /\ UNCHANGED sinexvars

NextSats ==
  \/ SatsLine
  \/ SatsEnd
  \/ Unpack

SpecSats == InitSats /\ [][NextSats]_vars /\ WF_vars(NextSats)

\* ------------------------------------------- compar_orbit, satellite choice
\* Model of geodezyx.reffram.gnss_products.compar_orbit, lines 98-107 and
\* 190-330: which satellites are compared.  A string is the list of its
\* characters; a row of an input table is <<const, sv>>, the constellation
\* string and the satellite number of the row.  D1window and D2window are
\* the rows left by the null-value and the step filters of lines 158-198.

\* constuse + str(svv).zfill(2) of line 326
SatName(constuse, svv) ==
  constuse \o <<Digit(svv \div 10), Digit(svv % 10)>>

RECURSIVE PyInt(_)
\* int(s) of a string of digits
PyInt(s) ==
  IF s = <<>> THEN 0
  ELSE PyInt(SubSeq(s, 1, Len(s) - 1)) * 10 + (s[Len(s)] - Digit(0))

\* faulty variant: no listed satellite is taken as one of the constellation
ConstIn_never(constuse, e) == FALSE

\* constuse in e, of lines 207 and 209
ConstIn(constuse, e) ==
  \E i \in 1..(Len(e) - Len(constuse) + 1) :
    SubSeq(e, i, i + Len(constuse) - 1) = constuse

\* lines 101-102 and 106-107: const_used_list after the entry sat
const_used_after(consts, sat) ==
  IF Len(sat) = 1 THEN Append(consts, sat)
  ELSE IF Len(sat) = 3 /\ <<sat[1]>> \notin Range(consts)
       THEN Append(consts, <<sat[1]>>)
       ELSE consts

\* lines 103-104: sv_used_list after the entry sat
sv_used_after(svs, sat) ==
  IF Len(sat) = 3 THEN Append(svs, sat) ELSE svs

\* lines 191-192 and 202: the satellite numbers of constuse in both inputs
CommonSv(constuse, d1, d2) ==
  {r[2] : r \in {q \in d1 : q[1] = constuse}}
    \cap {r[2] : r \in {q \in d2 : q[1] = constuse}}

\* line 209
sv_used_select_list(constuse, svs) ==
  {PyInt(SubSeq(svs[i], 2, Len(svs[i]))) :
     i \in {j \in 1..Len(svs) : ConstIn(constuse, svs[j])}}

\* lines 202-211: the sv_set of the constellation constuse
sv_set(constuse, svs, d1, d2) ==
  IF \E i \in 1..Len(svs) : ConstIn(constuse, svs[i])
  THEN AscSeq(CommonSv(constuse, d1, d2) \cap sv_used_select_list(constuse, svs))
  ELSE AscSeq(CommonSv(constuse, d1, d2))

\* the constellations and the satellites of the inputs
OrbitConsts == {<<Letter.G>>, <<Letter.E>>}
OrbitSvs == {4, 12}
OrbitRows == OrbitConsts \X OrbitSvs

\* what a sats_used_list names
OrbitEntries ==
  OrbitConsts \cup {SatName(<<Letter.G>>, 4), SatName(<<Letter.G>>, 12),
                    SatName(<<Letter.E>>, 4)}

\* the call compar_orbit(Data_inp_1, Data_inp_2, sats_used_list = lst)
StartOrbit(lst, d1, d2) ==
  /\ version = 0
  /\ LINES = <<>>
  /\ set_index = <<>>
  /\ EPOCHS = <<>>
  /\ pc = "orbit"
  /\ nscanned = 0
  /\ i_end_header = None
  /\ ObsAllList = <<>>
  /\ nobs = 0
  /\ dict_sys = <<>>
  /\ warned = FALSE
  /\ iepoc = 0
  /\ DFall_stk = <<>>
  /\ DFrnxobs = None
  /\ err = ""
  /\ call = None
  /\ bloc_tuple = None
  /\ sats_used_list = lst
  /\ D1window = d1
  /\ D2window = d2
  /\ isat = 0
  /\ const_used_list = <<>>
  /\ sv_used_list = <<>>
  /\ iconst = 0
  /\ Diff_sat_stk = <<>>
  /\ NoSinex

\* every list of up to MaxSatsUsed entries; input 1 has every satellite, or
\* lacks G12; input 2 has any of them
InitOrbit ==
  \E n \in 0..MaxSatsUsed :
    \E lst \in [1..n -> OrbitEntries] :
      \E d1 \in {OrbitRows, OrbitRows \ {<<(<<Letter.G>>), 12>>}} :
        \E d2 \in SUBSET OrbitRows :
          StartOrbit(lst, d1, d2)

\* one turn of the loop of lines 100-107
SelectEntry ==
  /\ pc = "orbit"
  /\ isat < Len(sats_used_list)
  /\ const_used_list' = const_used_after(const_used_list, sats_used_list[isat + 1])
  /\ sv_used_list' = sv_used_after(sv_used_list, sats_used_list[isat + 1])
  /\ isat' = isat + 1
  /\ UNCHANGED <<pc, err, sats_used_list, D1window, D2window, iconst, Diff_sat_stk>>
  /\ UNCHANGED satsvars
  /\ UNCHANGED readervars
  /\ UNCHANGED sinexvars

\* one turn of the loop of lines 190-328: the differences of every satellite
\* of sv_set are appended
CompareConst ==
  /\ pc = "orbit"
  /\ isat = Len(sats_used_list)
  /\ iconst < Len(const_used_list)
  /\ \E svs \in {sv_set(const_used_list[iconst + 1], sv_used_list, D1window, D2window)} :
       Diff_sat_stk' = Diff_sat_stk
          \o [k \in 1..Len(svs) |-> SatName(const_used_list[iconst + 1], svs[k])]
  /\ iconst' = iconst + 1
  /\ UNCHANGED <<pc, err, sats_used_list, D1window, D2window, isat,
                 const_used_list, sv_used_list>>
  /\ UNCHANGED satsvars
  /\ UNCHANGED readervars
  /\ UNCHANGED sinexvars

\* line 330: pd.concat raises on an empty list
ConcatDiff ==
  /\ pc = "orbit"
  /\ isat = Len(sats_used_list)
  /\ iconst = Len(const_used_list)
  /\ IF Diff_sat_stk = <<>>
     THEN Raise("ValueError")
     ELSE pc' = "compared" /\ err' = err
  /\ UNCHANGED orbitvars
  /\ UNCHANGED sinexvars
  /\ UNCHANGED satsvars
  /\ UNCHANGED readervars

NextOrbit ==
  \/ SelectEntry
  \/ CompareConst
  \/ ConcatDiff

SpecOrbit == InitOrbit /\ [][NextOrbit]_vars

\* ------------------------------------------------ compar_sinex, the summary
\* Model of geodezyx.reffram.gnss_products.compar_sinex, lines 755-799: the
\* summary of the differences.  A column of Ddiff is a number that stands for
\* its values; a statistic of a column is a number that stands for the
\* statistic and the column, so that different statistics or different
\* columns give different numbers.

\* line 766
col_names == <<"x", "y", "z", "d3D_xyz", "e", "n", "u", "d2D_enu", "d3D_enu">>

\* lines 725, 745-746: the norm of the columns a, b, c
Norm(a, b, c) == 1000 + 100 * a + 10 * b + c

\* stats.rms_mean of line 770, np.nanmean of line 772, np.nanstd of line 774
rms_mean(col) == 10000 + col
nanmean(col) == 20000 + col
nanstd(col) == 30000 + col

\* lines 769-774
Statistics(d) ==
  [i \in 1..Len(col_names) |-> rms_mean(d[col_names[i]])]
  \o [i \in 1..Len(col_names) |-> nanmean(d[col_names[i]])]
  \o [i \in 1..Len(col_names) |-> nanstd(d[col_names[i]])]

\* lines 789-795, as written
SummaryColumns ==
  <<"week", "dow", "nbstat",
    "x_rms", "y_rms", "z_rms", "d3D_xyz_rms",
    "e_rms", "n_rms", "u_rms", "d2D_enu_rms", "d3D_enu_rms",
    "x_ari", "y_ari", "z_ari", "d3D_xyz_ari",
    "e_ari", "n_ari", "u_ari", "d2D_enu_ari", "d3D_enu_ari",
    "x_ari", "y_std", "z_std", "d3D_xyz_std",
    "e_ari", "n_std", "u_std", "d2D_enu_std", "d3D_enu_std">>

\* the call compar_sinex(snx1, snx2, ...) at line 755, Ddiff built
StartSinex(summary, meta, dataframe, w, stats, d) ==
  /\ version = 0
  /\ LINES = <<>>
  /\ set_index = <<>>
  /\ EPOCHS = <<>>
  /\ pc = "sinex"
  /\ nscanned = 0
  /\ i_end_header = None
  /\ ObsAllList = <<>>
  /\ nobs = 0
  /\ dict_sys = <<>>
  /\ warned = FALSE
  /\ iepoc = 0
  /\ DFall_stk = <<>>
  /\ DFrnxobs = None
  /\ err = ""
  /\ call = None
  /\ bloc_tuple = None
  /\ NoOrbit
  /\ out_means_summary = summary
  /\ out_meta = meta
  /\ out_dataframe = dataframe
  /\ wwwwd = w
  /\ STATCommon = stats
  /\ Ddiff = d
  /\ output = <<>>
  /\ output_DF = None

\* the date of the inputs: two files of the same date or manu_wwwwd given,
\* or none of the two (lines 674-690)
Dates ==
  {None,
   Some(<<Digit(2), Digit(0), Digit(1), Digit(2), Digit(3)>>),
   Some(<<Digit(1), Digit(9), Digit(9), Digit(9), Digit(0)>>)}

\* every choice of the three flags, the date, one or two common stations and
\* the six columns of differences the code computes the norms from
InitSinex ==
  \E summary \in BOOLEAN, meta \in BOOLEAN, dataframe \in BOOLEAN :
    \E w \in Dates, stats \in {{1}, {1, 2}} :
      \E x \in 1..MaxDiff, y \in 1..MaxDiff, z \in 1..MaxDiff :
        \E e \in 1..MaxDiff, n \in 1..MaxDiff, u \in 1..MaxDiff :
          StartSinex(summary, meta, dataframe, w, stats,
                     [c \in Range(col_names) |->
                        CASE c = "x" -> x
                          [] c = "y" -> y
                          [] c = "z" -> z
                          [] c = "d3D_xyz" -> Norm(x, y, z)
                          [] c = "e" -> e
                          [] c = "n" -> n
                          [] c = "u" -> u
                          [] c = "d2D_enu" -> Norm(e, n, 0)
                          [] c = "d3D_enu" -> Norm(e, n, u)])

\* lines 756-762: out_dataframe forces out_meta; without out_means_summary
\* Ddiff is returned
SinexFlags ==
  /\ pc = "sinex"
  /\ out_meta' = (out_dataframe \/ out_meta)
  /\ pc' = IF out_means_summary THEN "stats" ELSE "returned_Ddiff"
  /\ UNCHANGED <<err, out_means_summary, out_dataframe, wwwwd, STATCommon,
                 Ddiff, output, output_DF>>
  /\ UNCHANGED satsvars
  /\ UNCHANGED readervars
  /\ UNCHANGED orbitvars

\* lines 764-774
SinexStats ==
  /\ pc = "stats"
  /\ output' = Statistics(Ddiff)
  /\ pc' = "meta"
  /\ UNCHANGED <<err, out_means_summary, out_meta, out_dataframe, wwwwd,
                 STATCommon, Ddiff, output_DF>>
  /\ UNCHANGED satsvars
  /\ UNCHANGED readervars
  /\ UNCHANGED orbitvars

\* lines 776-781: print(wwwwd) raises while wwwwd is unbound
SinexMeta ==
  /\ pc = "meta"
  /\ IF ~out_meta
     THEN pc' = "frame" /\ err' = err /\ output' = output
     ELSE IF wwwwd = None
     THEN Raise("UnboundLocalError") /\ output' = output
     ELSE /\ output' = <<PyInt(PySlice(wwwwd[1], 0, Some(4))),
                         PyInt(PySlice(wwwwd[1], 4, None)),
                         Cardinality(STATCommon)>> \o output
          /\ pc' = "frame"
          /\ err' = err
  /\ UNCHANGED <<out_means_summary, out_meta, out_dataframe, wwwwd,
                 STATCommon, Ddiff, output_DF>>
  /\ UNCHANGED satsvars
  /\ UNCHANGED readervars
  /\ UNCHANGED orbitvars

\* lines 784-799: the tuple, or the table of one row with its labels; the
\* assignment of the labels raises when their number is not that of the values
SinexReturn ==
  /\ pc = "frame"
  /\ IF ~out_dataframe
     THEN pc' = "returned_tuple" /\ err' = err /\ output_DF' = output_DF
     ELSE IF Len(output) # Len(SummaryColumns)
     THEN Raise("ValueError") /\ output_DF' = output_DF
     ELSE /\ output_DF' = Some([columns |-> SummaryColumns, row |-> output])
          /\ pc' = "returned_DF"
          /\ err' = err
  /\ UNCHANGED <<out_means_summary, out_meta, out_dataframe, wwwwd,
                 STATCommon, Ddiff, output>>
  /\ UNCHANGED satsvars
  /\ UNCHANGED readervars
  /\ UNCHANGED orbitvars

NextSinex ==
  \/ SinexFlags
  \/ SinexStats
  \/ SinexMeta
  \/ SinexReturn

SpecSinex == InitSinex /\ [][NextSinex]_vars

\* ---------------------------------------------------------------- the claims
\* what the file itself says, read off LINES without the reader
Returned == pc = "done"
Table == DFrnxobs[1]
NoKey == set_index = <<>>

\* the lines of the block of epoch e (1-based) from its epoch line on
BlockOf(e) ==
  SubSeq(LINES, EPOCHS[e][2] + 1,
         IF e = Len(EPOCHS) THEN Len(LINES) ELSE EPOCHS[e + 1][2])

\* the satellite lines of a RINEX 3/4 block
SatLines(e) == Tail(BlockOf(e))

\* the system letters the header declares, from its SYS / # / OBS TYPES lines
DeclaredSystems == {l.items[1] : l \in {x \in Range(LINES) : x.kind = "sys3" /\ x.tag = "L"}}

IsDeclared(l) == SysOf(l.num) \in DeclaredSystems

RECURSIVE Sum(_)
Sum(ns) == IF ns = <<>> THEN 0 ELSE Head(ns) + Sum(Tail(ns))

\* C1 as stated: the table has as many rows as the epochs have satellites:
\* the nsat of every EPOCH/SAT line (RINEX 2), the number of satellite lines
\* of every block (RINEX 3/4)
SatCount(e) == IF version = 2 THEN Head(BlockOf(e)).num ELSE Len(SatLines(e))

DeclaredAt(e) == {p \in 0..(Len(SatLines(e)) - 1) : IsDeclared(SatLines(e)[p + 1])}

RowCount3(e) ==
  Cardinality((0..(Cardinality(DeclaredAt(e)) - 1)) \cup DeclaredAt(e))

Cell(row, c) ==
  IF c \in Range(Table.index)
  THEN row.idx[CHOOSE j \in 1..Len(Table.index) : Table.index[j] = c]
  ELSE row.val[c]

SequentialIndex == \A i \in 1..Len(Table.rows) : Table.rows[i].idx = <<i - 1>>

\* C2: with set_index=None the table of read_rinex2_obs is sorted ascending
\* by (epoch, prn) and its row index is 0..N-1, whatever the order of the
\* epochs in the index and of the satellites on the EPOCH/SAT lines
C2_SortedByEpochPrn ==
  (Returned /\ version = 2 /\ NoKey) =>
    /\ SequentialIndex
    /\ \A i \in 1..Len(Table.rows) : \A j \in 1..Len(Table.rows) :
         i < j =>
           \/ Table.rows[i].val[ColEpoch] < Table.rows[j].val[ColEpoch]
           \/ /\ Table.rows[i].val[ColEpoch] = Table.rows[j].val[ColEpoch]
              /\ Table.rows[i].val[ColPrn] <= Table.rows[j].val[ColPrn]

\* C2 witness: a table from a file whose epochs are not in time order and
\* whose first EPOCH/SAT line lists its satellites in descending order
C2_Witness ==
  /\ Returned /\ version = 2 /\ NoKey
  /\ Len(EPOCHS) = 2
  /\ EPOCHS[1][1] > EPOCHS[2][1]
  /\ Len(Head(BlockOf(1)).items) = 2
  /\ Head(BlockOf(1)).items[1] > Head(BlockOf(1)).items[2]

\* the header's systems in the order of their SYS / # / OBS TYPES lines
DeclaredOrder ==
  LET ls == SelectSeq(LINES, LAMBDA l : l.kind = "sys3" /\ l.tag = "L")
  IN  [i \in 1..Len(ls) |-> ls[i].items[1]]

\* <<timestamp, PRN>> of the satellite lines of block e, in file order
ByLine(e) == [p \in 1..Len(SatLines(e)) |-> <<EPOCHS[e][1], SatLines(e)[p].num>>]

\* the same, system by system in declaration order
BySystem(e) ==
  Flatten([i \in 1..Len(DeclaredOrder) |->
             SelectSeq(ByLine(e), LAMBDA r : SysOf(r[2]) = DeclaredOrder[i])])

EpochPrnOfRows == [i \in 1..Len(Table.rows) |->
                     <<Table.rows[i].val[ColEpoch], Table.rows[i].val[ColPrn]>>]

AllDeclared == \A e \in 1..Len(EPOCHS) : \A p \in 1..Len(SatLines(e)) : IsDeclared(SatLines(e)[p])

DeclaredCodes2 ==
  Tail(Flatten([i \in 1..Len(LINES) |->
                  IF LINES[i].kind = "types2" THEN LINES[i].items ELSE <<>>]))

\* the positions of the data columns at which name c stands
PositionsOf(c) == {j \in 1..Len(Table.cols) : Table.cols[j] = c}

\* C4: the table of read_rinex2_obs from a header that declares n codes has
\* 3n+3 columns, the key columns counted: epoch, sys, prn lead the data
\* columns (those that are not in the key), and every declared code X stands
\* exactly once, as the three neighbouring columns X, X_LLI, X_SSI; no other
\* column exists
C4_Columns ==
  (Returned /\ version = 2) =>
    LET n == Len(DeclaredCodes2)
        lead == Without(<<ColEpoch, ColSys, ColPrn>>, set_index)
    IN  /\ Len(Table.index) + Len(Table.cols) = 3 * n + 3
        /\ Table.index = set_index
        /\ SubSeq(Table.cols, 1, Len(lead)) = lead
        /\ \A X \in Range(DeclaredCodes2) :
             /\ \A k \in 0..2 : Cardinality(PositionsOf(<<X, k>>)) = 1
             /\ \E j \in PositionsOf(<<X, 0>>) :
                  /\ j + 2 <= Len(Table.cols)
                  /\ Table.cols[j + 1] = <<X, 1>>
                  /\ Table.cols[j + 2] = <<X, 2>>
        /\ \A j \in (Len(lead) + 1)..Len(Table.cols) :
             Table.cols[j][1] \in Range(DeclaredCodes2)

\* C4 witness: a table from a header that declares two codes or more, not in
\* alphabetical order
C4_Witness ==
  /\ Returned /\ version = 2 /\ NoKey
  /\ Len(DeclaredCodes2) >= 2
  /\ DeclaredCodes2[1] > DeclaredCodes2[2]

\* every column the reader builds before the re-keying
ColumnsBuilt ==
  IF version = 2 THEN {ColEpoch, ColSys, ColPrn} \cup Range(ObsAllList)
  ELSE {ColEpoch, ColSys} \cup Range(ColsOk(dict_sys))

\* C5: with set_index given, the returned table is keyed by exactly those
\* columns, in the order given, and its rows are ascending by the key
\* (missing key values last); with set_index omitted the row index is
\* 0..N-1 and every column, epoch, sys and prn included, is a data column
C5_Keyed ==
  Returned =>
    /\ Table.index = set_index
    /\ Range(Table.cols) = ColumnsBuilt \ Range(set_index)
    /\ Len(Table.cols) = Cardinality(Range(Table.cols))
    /\ \A i \in 1..Len(Table.rows) :
         /\ DOMAIN Table.rows[i].val = Range(Table.cols)
         /\ ~NoKey => Len(Table.rows[i].idx) = Len(set_index)
    /\ ~NoKey =>
         \A i \in 1..Len(Table.rows) : \A j \in 1..Len(Table.rows) :
           i < j => ~TupLess(Table.rows[j].idx, Table.rows[i].idx)
    /\ NoKey => SequentialIndex /\ {ColEpoch, ColSys, ColPrn} \subseteq Range(Table.cols)

\* C5 witness: a table keyed by prn in which a later epoch stands before an
\* earlier one: the rows were put in the order of the key
C5_Witness ==
  /\ Returned /\ set_index = <<ColPrn>>
  /\ \E i \in 1..Len(Table.rows) : \E j \in 1..Len(Table.rows) :
       /\ i < j
       /\ Table.rows[j].val[ColEpoch] # NA
       /\ Table.rows[i].val[ColEpoch] > Table.rows[j].val[ColEpoch]

\* two rows of the returned table have one key
DuplicateKey ==
  \E i \in 1..Len(Table.rows) : \E j \in 1..Len(Table.rows) :
    i < j /\ Table.rows[i].idx = Table.rows[j].idx

NoEndOfHeader == \A i \in 1..Len(LINES) : LINES[i].kind # "eoh"

\* C7: when no line of the file holds END OF HEADER, both readers end in an
\* error once the header loop has looked at every line: no catalog of
\* observables is built, no epoch block is decoded, no table is returned
C7_NoEndOfHeader ==
  (NoEndOfHeader /\ pc # "scan") =>
    /\ pc = "error"
    /\ err = "UnboundLocalError"
    /\ nscanned = Len(LINES)
    /\ i_end_header = None
    /\ ObsAllList = <<>> /\ nobs = 0 /\ dict_sys = <<>>
    /\ iepoc = 0 /\ DFall_stk = <<>>
    /\ DFrnxobs = None

\* C7 witness: the call has ended on a file without END OF HEADER that has
\* observable lines in its header and epoch blocks after it
C7_Witness ==
  /\ NoEndOfHeader /\ pc = "error"
  /\ Len(EPOCHS) >= 1
  /\ \E i \in 1..Len(LINES) : LINES[i].kind \in {"types2", "sys3"}
  /\ \E i \in 1..Len(LINES) : LINES[i].kind \in {"obs2", "sat3"}

HasEndOfHeader == ~NoEndOfHeader

\* the count a RINEX 2 header declares, the first token of its
\* # / TYPES OF OBSERV lines
DeclaredCount2 ==
  Head(Flatten([i \in 1..Len(LINES) |->
                  IF LINES[i].kind = "types2" THEN LINES[i].items ELSE <<>>]))

\* the SYS / # / OBS TYPES lines of the header
SysLines == SelectSeq(LINES, LAMBDA l : l.kind = "sys3" /\ l.tag = "L")

RECURSIVE ContCodes(_, _)
\* the codes of the continuation lines that follow line i of lines
ContCodes(lines, i) ==
  IF i + 1 <= Len(lines) /\ lines[i + 1].kind = "sys3" /\ lines[i + 1].tag = " "
  THEN lines[i + 1].items \o ContCodes(lines, i + 1)
  ELSE <<>>

\* the codes the header lists for system s: those of its system line, then
\* those of its continuation lines
ListedCodes3(s) ==
  LET i == CHOOSE j \in 1..Len(LINES) :
             LINES[j].kind = "sys3" /\ LINES[j].tag = "L" /\ LINES[j].items[1] = s
  IN  SubSeq(LINES[i].items, 3, Len(LINES[i].items)) \o ContCodes(LINES, i)

\* the declared count of the header is not the length of its list of codes
HeaderMismatch ==
  IF version = 2 THEN DeclaredCount2 # Len(DeclaredCodes2)
  ELSE \E i \in 1..Len(SysLines) :
         SysLines[i].items[2] # Len(ListedCodes3(SysLines[i].items[1]))

\* the file has epochs and every epoch has a satellite the reader can name
BodyDecodable ==
  /\ Len(EPOCHS) >= 1
  /\ \A e \in 1..Len(EPOCHS) :
       IF version = 2 THEN SatCount(e) >= 1
       ELSE SatCount(e) >= 1 /\ DeclaredAt(e) = 0..(SatCount(e) - 1)

Ended == pc \in {"done", "error"}

\* the names of the value, LLI and SSI columns the code lists give
LabelsFromLists ==
  IF version = 2 THEN Range(Triples(DeclaredCodes2))
  ELSE UNION {Range(Triples(ListedCodes3(s))) : s \in DeclaredSystems}

\* C8 as stated: a header whose declared count is not the length of its code
\* list does not abort the parse: the warning is printed, a table is
\* returned and its observable columns are those of the code list
C8_AsStated ==
  (HasEndOfHeader /\ HeaderMismatch /\ BodyDecodable /\ Ended) =>
    /\ Returned
    /\ warned
    /\ (Range(Table.cols) \cup Range(Table.index)) \ {ColEpoch, ColSys, ColPrn}
         = LabelsFromLists

\* the field group of column position j (1-based) in the record of satellite
\* i (1-based) of RINEX 2 block e: records take Ceil(n / 5) lines of five
\* groups, a line that ends before the group has none
Group2(e, i, j) ==
  LET nl == Ceil(DeclaredCount2, ObsPerLine)
      l == BlockOf(e)[1 + (i - 1) * nl + ((j - 1) \div ObsPerLine) + 1]
      g == ((j - 1) % ObsPerLine) + 1
  IN  IF g <= Len(l.items) THEN Some(l.items[g]) ELSE None

\* the same of satellite line l of a RINEX 3/4 block
Group3(l, j) == IF j <= Len(l.items) THEN Some(l.items[j]) ELSE None

\* what a field group decodes to: blank and absent fields are missing
Decoded(g, k) == IF g = None THEN NA ELSE ParseField(g[1][k + 1])

\* a RINEX 2 file whose header is consistent and alphabetical and whose blocks
\* have all their lines: nsat satellites named and nsat records of
\* Ceil(n / 5) lines each
Complete2 ==
  /\ HasEndOfHeader
  /\ ~HeaderMismatch
  /\ DeclaredCount2 >= 1
  /\ SortedNames(Triples(DeclaredCodes2)) = Triples(DeclaredCodes2)
  /\ Len(EPOCHS) >= 1
  /\ \A e \in 1..Len(EPOCHS) :
       /\ SatCount(e) >= 1
       /\ Len(Head(BlockOf(e)).items) = SatCount(e)
       /\ Len(BlockOf(e)) = 1 + SatCount(e) * Ceil(DeclaredCount2, ObsPerLine)
       /\ \A p \in 2..Len(BlockOf(e)) : BlockOf(e)[p].kind = "obs2"

Complete3 ==
  /\ HasEndOfHeader
  /\ ~HeaderMismatch
  /\ DeclaredSystems # {}
  /\ BodyDecodable

\* some row of the table is the satellite of this epoch and PRN with these
\* decoded fields
RowFor2(e, i) ==
  \E r \in 1..Len(Table.rows) :
    /\ Cell(Table.rows[r], ColEpoch) = EPOCHS[e][1]
    /\ Cell(Table.rows[r], ColPrn) = Head(BlockOf(e)).items[i]
    /\ \A j \in 1..Len(DeclaredCodes2) : \A k \in 0..2 :
         Cell(Table.rows[r], <<DeclaredCodes2[j], k>>) = Decoded(Group2(e, i, j), k)

RowFor3(e, p) ==
  \E r \in 1..Len(Table.rows) :
    /\ Cell(Table.rows[r], ColEpoch) = EPOCHS[e][1]
    /\ Cell(Table.rows[r], ColPrn) = SatLines(e)[p].num
    /\ LET list == ListedCodes3(SysOf(SatLines(e)[p].num))
       IN  \A j \in 1..Len(list) : \A k \in 0..2 :
             Cell(Table.rows[r], <<list[j], k>>) = Decoded(Group3(SatLines(e)[p], j), k)

\* C9 as stated: in a file that is complete but for blank or absent fields,
\* no error is raised and every satellite has its row, each field decoded
\* from its own place of the record, blank and absent ones as missing
C9_AsStated ==
  (Ended /\ (IF version = 2 THEN Complete2 ELSE Complete3)) =>
    /\ Returned
    /\ \A e \in 1..Len(EPOCHS) :
         IF version = 2 THEN \A i \in 1..SatCount(e) : RowFor2(e, i)
         ELSE \A p \in 1..SatCount(e) : RowFor3(e, p)

\* the observable columns of the returned table
ObsColumns == (Range(Table.cols) \cup Range(Table.index)) \ {ColEpoch, ColSys, ColPrn}

\* the value of observable column c the satellite line l gives: the field at
\* the place of c in the list of the system of l, missing when the system
\* does not list the code of c
Expected3(l, c) ==
  LET list == ListedCodes3(SysOf(l.num))
      hits == {j \in 1..Len(list) : list[j] = c[1]}
  IN  IF hits = {} THEN NA
      ELSE Decoded(Group3(l, CHOOSE j \in hits : TRUE), c[2])

\* C10: every row of read_rinex3_obs that has a PRN is cut from one
\* satellite line of that PRN: its sys is the system letter, each column of
\* an observable listed for that system holds the field at the place of the
\* observable in that list, and each column of an observable of other
\* systems only is missing, the fields of the line beyond the list dropped
C10_OwnColumnsOnly ==
  (Returned /\ version = 3) =>
    \A r \in 1..Len(Table.rows) :
      Cell(Table.rows[r], ColPrn) # NA =>
        /\ Cell(Table.rows[r], ColSys) = SysOf(Cell(Table.rows[r], ColPrn))
        /\ SysOf(Cell(Table.rows[r], ColPrn)) \in DeclaredSystems
        /\ \E e \in 1..Len(EPOCHS) : \E p \in 1..Len(SatLines(e)) :
             /\ SatLines(e)[p].num = Cell(Table.rows[r], ColPrn)
             /\ Cell(Table.rows[r], ColEpoch) \in {NA, EPOCHS[e][1]}
             /\ \A c \in ObsColumns :
                  Cell(Table.rows[r], c) = Expected3(SatLines(e)[p], c)

\* C10 witness: a table with a row of a system that lists fewer observables
\* than nobs_max, cut from a line that has a value in a field beyond its list
C10_Witness ==
  /\ Returned /\ version = 3
  /\ \E e \in 1..Len(EPOCHS) : \E p \in 1..Len(SatLines(e)) :
       LET l == SatLines(e)[p]
       IN  /\ IsDeclared(l)
           /\ Len(ListedCodes3(SysOf(l.num))) < nobs_max_of(dict_sys)
           /\ Len(l.items) > Len(ListedCodes3(SysOf(l.num)))
           /\ l.items[Len(ListedCodes3(SysOf(l.num))) + 1][1] # BLANK
           /\ \E r \in 1..Len(Table.rows) :
                /\ Cell(Table.rows[r], ColPrn) = l.num
                /\ Cell(Table.rows[r], ColEpoch) = EPOCHS[e][1]
                /\ \E c \in ObsColumns :
                     /\ c[1] \notin Range(ListedCodes3(SysOf(l.num)))
                     /\ c[2] = 0
                     /\ Cell(Table.rows[r], c) = NA

\* the block a call of _sats_find was given, and the call being over
SatsBlock == call[1].Lines_inp
SatsOver == call # None /\ pc \in {"returned", "unpacked", "error"}

\* the block starts with an EPOCH/SAT line of nsat >= 1 satellites and has
\* the Ceil(nsat / 12) lines of its satellite list
ListedBlock ==
  /\ SatsBlock # <<>>
  /\ Head(SatsBlock).kind = "epoch2"
  /\ Head(SatsBlock).num >= 1
  /\ Len(SatsBlock) >= Ceil(Head(SatsBlock).num, SatsPerLine)
  /\ \A j \in 2..Ceil(Head(SatsBlock).num, SatsPerLine) : SatsBlock[j].kind = "satcont"

\* the n-th (1-based) 3-character identifier of the satellite-list columns,
\* 12 to a line from column 32 on
IdentifierAt(n) ==
  SatsBlock[((n - 1) \div SatsPerLine) + 1].items[((n - 1) % SatsPerLine) + 1]

\* C11 as stated: for a block that starts with an EPOCH/SAT line of
\* nsat >= 1 satellites, _sats_find returns the index of the last of the
\* Ceil(nsat / 12) lines of the list and nsat tokens, token n being the n-th
\* 3-character identifier of the list columns
C11_AsStated ==
  (SatsOver /\ ListedBlock) =>
    /\ bloc_tuple # None
    /\ bloc_tuple[1].il = Ceil(Head(SatsBlock).num, SatsPerLine) - 1
    /\ bloc_tuple[1].nsat = Head(SatsBlock).num
    /\ Len(bloc_tuple[1].Sats_split) = Head(SatsBlock).num
    /\ \A n \in 1..Head(SatsBlock).num : bloc_tuple[1].Sats_split[n] = IdentifierAt(n)

NoEpochLine == call # None /\ \A i \in 1..Len(SatsBlock) : SatsBlock[i].kind # "epoch2"

\* C19: on a block without a line of the epoch pattern, _sats_find looks at
\* every line, binds no satellite count and no satellite text, raises
\* nothing and ends without a tuple; the unpacking of line 100 then ends
\* read_rinex2_obs in an error, with no table
C19_NoEpochLine ==
  /\ [](NoEpochLine =>
          /\ call[1].nsat = None /\ call[1].lineconcat = None /\ call[1].epoc = None
          /\ bloc_tuple = None
          /\ pc \in {"sats", "returned", "error"}
          /\ pc # "sats" => call[1].il = Len(SatsBlock)
          /\ pc # "error" => err = ""
          /\ pc = "error" => err = "TypeError"
          /\ DFrnxobs = None)
  /\ (NoEpochLine ~> (pc = "error"))

\* C19 witness: the caller has ended in the error on a block of several
\* lines, none of them an EPOCH/SAT line
C19_Witness ==
  /\ NoEpochLine
  /\ Len(SatsBlock) >= 2
  /\ call[1].il = Len(SatsBlock)
  /\ pc = "error"

\* the block has an EPOCH/SAT line with the Ceil(nsat / 12) lines of its
\* list from that line on
ListPresent ==
  /\ call # None
  /\ \E i \in 1..Len(SatsBlock) :
       /\ SatsBlock[i].kind = "epoch2"
       /\ Len(SatsBlock) - i + 1 >= Ceil(SatsBlock[i].num, SatsPerLine)

\* C20 as stated: on a block with an EPOCH/SAT line of nsat >= 0 satellites
\* and the lines of its list, _sats_find eventually returns the tuple, also
\* for nsat = 0
C20_AsStated == [](ListPresent => <>(bloc_tuple # None))

\* the lines of the record of satellite i (1-based) of RINEX 2 block e, as
\* far as the block has them
RecordLines(e, i) ==
  LET nl == Ceil(DeclaredCount2, ObsPerLine)
  IN  PySlice(BlockOf(e), 1 + (i - 1) * nl, Some(1 + i * nl))

\* every field of the record is a field of spaces, or the line ends before it
RecordBlank(e, i) ==
  \A j \in 1..Len(RecordLines(e, i)) :
    \A g \in 1..Len(RecordLines(e, i)[j].items) :
      RecordLines(e, i)[j].items[g] = <<BLANK, BLANK, BLANK>>

\* the block has its EPOCH/SAT line with nsat >= 1 satellites named, and
\* observation lines after it, short lines short of the full count
BlockShape(e, short) ==
  /\ SatCount(e) >= 1
  /\ Len(Head(BlockOf(e)).items) = SatCount(e)
  /\ Len(BlockOf(e)) = 1 + SatCount(e) * Ceil(DeclaredCount2, ObsPerLine) - short
  /\ \A p \in 2..Len(BlockOf(e)) : BlockOf(e)[p].kind = "obs2"

BlockSound(e) ==
  /\ BlockShape(e, 0)
  /\ \A i \in 1..SatCount(e) : ~RecordBlank(e, i)

\* one record of the block is corrupt: it is entirely blank, or the block
\* is one observation line short
BlockCorrupt(e) ==
  \/ /\ BlockShape(e, 0)
     /\ Cardinality({i \in 1..SatCount(e) : RecordBlank(e, i)}) = 1
  \/ /\ BlockShape(e, 1)
     /\ Ceil(DeclaredCount2, ObsPerLine) = 1
     /\ \A i \in 1..(SatCount(e) - 1) : ~RecordBlank(e, i)

\* a RINEX 2 file, its header consistent and alphabetical, with one corrupt
\* record in one block and every other block sound
OneCorruptRecord ==
  /\ version = 2
  /\ call = None
  /\ HasEndOfHeader
  /\ ~HeaderMismatch
  /\ DeclaredCount2 >= 1
  /\ SortedNames(Triples(DeclaredCodes2)) = Triples(DeclaredCodes2)
  /\ \E e \in 1..Len(EPOCHS) :
       /\ BlockCorrupt(e)
       /\ \A o \in 1..Len(EPOCHS) : o # e => BlockSound(o)

\* C12 as stated: one corrupt record in one block of a RINEX 2 file does not
\* abort the parse: a table is returned and it holds the rows of every
\* other epoch
C12_AsStated ==
  (OneCorruptRecord /\ Ended) =>
    /\ Returned
    /\ \A o \in 1..Len(EPOCHS) :
         BlockSound(o) => \A i \in 1..SatCount(o) : RowFor2(o, i)

\* two sequences of rows hold the same rows, each as often
SameRows(a, b) ==
  /\ Len(a) = Len(b)
  /\ \A r \in Range(a) \cup Range(b) :
       Cardinality({i \in 1..Len(a) : a[i] = r}) = Cardinality({i \in 1..Len(b) : b[i] = r})

\* the returned table after reset_index() and the re-keying of lines 127-129
\* applied once more
ReKeyedAgain == ReKey(reset_index_keep(Table), set_index)

OrbitOver == pc = "compared" \/ (pc = "error" /\ version = 0)

\* the satellites of constellation c whose differences were stacked
ComparedOf(c) ==
  {Diff_sat_stk[i] : i \in {j \in 1..Len(Diff_sat_stk) : Diff_sat_stk[j][1] = c}}

\* the satellites of constellation c named one by one in sats_used_list
ListedOf(c) ==
  {sats_used_list[i] :
     i \in {j \in 1..Len(sats_used_list) :
              Len(sats_used_list[j]) = 3 /\ sats_used_list[j][1] = c}}

\* the constellation c is named as a whole in sats_used_list
WholeListed(c) == \E i \in 1..Len(sats_used_list) : sats_used_list[i] = <<c>>

\* the satellites of constellation c that both inputs hold
CommonOf(c) ==
  {SatName(<<c>>, r[2]) : r \in {q \in D1window \cap D2window : q[1] = <<c>>}}

\* C14: when compar_orbit has chosen its satellites, those compared for a
\* constellation c are the listed satellites of c common to both inputs if
\* a satellite of c is listed (whether or not c is listed too), every common
\* satellite of c if only c is listed, and none if c is not named at all.
C14_Selection ==
  OrbitOver =>
    \A c \in {Letter.G, Letter.E, Letter.R} :
      ComparedOf(c) =
        IF ListedOf(c) # {} THEN ListedOf(c) \cap CommonOf(c)
        ELSE IF WholeListed(c) THEN CommonOf(c)
        ELSE {}

\* a call that names G as a whole and G04 alone, G12 being common to both
\* inputs as well, and that names neither E nor a satellite of E
C14_Witness ==
  /\ pc = "compared"
  /\ WholeListed(Letter.G)
  /\ ListedOf(Letter.G) = {SatName(<<Letter.G>>, 4)}
  /\ CommonOf(Letter.G) = {SatName(<<Letter.G>>, 4), SatName(<<Letter.G>>, 12)}
  /\ CommonOf(Letter.E) # {}
  /\ ComparedOf(Letter.E) = {}
  /\ ~WholeListed(Letter.E)

\* the header has its END OF HEADER line, names every system once, and
\* every continuation line follows the record of a system
ContinuedHeader ==
  /\ version = 3
  /\ HasEndOfHeader
  /\ \A i \in 1..Len(LINES) :
       (LINES[i].kind = "sys3" /\ LINES[i].tag = " ") =>
         (i > 1 /\ LINES[i - 1].kind = "sys3")
  /\ \A i \in 1..Len(SysLines) : \A j \in 1..Len(SysLines) :
       SysLines[i].items[1] = SysLines[j].items[1] => i = j

\* C15 as stated: once the header of a RINEX 3/4 file is catalogued, there
\* is exactly one entry per declared system, in header order, and the entry
\* of a system holds the codes of its system line followed by those of all
\* its continuation lines, however many there are; no continuation line is
\* an entry of its own
C15_AsStated ==
  (ContinuedHeader /\ pc \notin {"scan", "catalog"}) =>
    /\ Len(dict_sys) = Len(SysLines)
    /\ \A i \in 1..Len(SysLines) :
         /\ dict_sys[i].sys = SysLines[i].items[1]
         /\ dict_sys[i].obs = ListedCodes3(SysLines[i].items[1])

\* a RINEX 2 file whose header is consistent, the codes declared in any
\* order, and whose blocks have all their lines
Complete2AnyOrder ==
  /\ version = 2
  /\ HasEndOfHeader
  /\ ~HeaderMismatch
  /\ DeclaredCount2 >= 1
  /\ Len(EPOCHS) >= 1
  /\ \A e \in 1..Len(EPOCHS) : BlockShape(e, 0)

\* C16 as stated: in the table of read_rinex2_obs, whatever the order in
\* which the header declares the codes, the columns X, X_LLI and X_SSI of
\* the code X declared at position k hold, for every satellite record, the
\* k-th field group of that record
C16_AsStated ==
  (Returned /\ Complete2AnyOrder) =>
    \A e \in 1..Len(EPOCHS) : \A i \in 1..SatCount(e) : RowFor2(e, i)

\* C17 as stated: in the table of read_rinex2_obs, with L = Ceil(nobs / 5),
\* the record of satellite n of a block is the L physical lines that follow
\* the satellite list from line n * L on, and field group k of the record is
\* the group at place k mod 5 of physical line k div 5 of these, a group
\* beyond the end of a short physical line being missing
C17_AsStated ==
  (Returned /\ version = 2 /\ Complete2) =>
    \A e \in 1..Len(EPOCHS) : \A i \in 1..SatCount(e) :
      \E r \in 1..Len(Table.rows) :
        /\ Cell(Table.rows[r], ColEpoch) = EPOCHS[e][1]
        /\ Cell(Table.rows[r], ColPrn) = Head(BlockOf(e)).items[i]
        /\ \A k \in 0..(DeclaredCount2 - 1) : \A f \in 0..2 :
             Cell(Table.rows[r], <<DeclaredCodes2[k + 1], f>>) =
               LET l == RecordLines(e, i)[(k \div ObsPerLine) + 1]
               IN  IF (k % ObsPerLine) + 1 <= Len(l.items)
                   THEN ParseField(l.items[(k % ObsPerLine) + 1][f + 1])
                   ELSE NA

\* the 0-based file lines that the epoch loop slices for epoch i (1-based):
\* those of Python's LINES[iline_start:iline_end]
SlicedLines(i) ==
  LET stop == iline_end(EPOCHS, i - 1)
  IN  iline_start(version, EPOCHS, i - 1)
        .. ((IF stop = None THEN Len(LINES) ELSE Min(stop[1], Len(LINES))) - 1)

\* the 0-based file lines from the offset of epoch i up to the offset of the
\* next epoch, or to the end of the file for the last epoch
OffsetRange(i) ==
  EPOCHS[i][2] .. ((IF i < Len(EPOCHS) THEN EPOCHS[i + 1][2] ELSE Len(LINES)) - 1)

\* how often the lines of numbers P name the satellite prn to the reader
NamedIn(P, prn) ==
  IF version = 2
  THEN Sum([q \in 1..Len(LINES) |->
              IF (q - 1) \in P /\ LINES[q].kind \in {"epoch2", "satcont"}
              THEN Cardinality({j \in 1..Len(LINES[q].items) : LINES[q].items[j] = prn})
              ELSE 0])
  ELSE Cardinality({p \in P : /\ LINES[p + 1].kind = "sat3"
                              /\ LINES[p + 1].num = prn
                              /\ SysOf(prn) \in {dict_sys[j].sys : j \in 1..Len(dict_sys)}})

\* the satellites of the file
PrnsOfFile ==
  UNION {IF LINES[q].kind \in {"epoch2", "satcont"} THEN Range(LINES[q].items)
         ELSE IF LINES[q].kind = "sat3" THEN {LINES[q].num} ELSE {} :
           q \in 1..Len(LINES)}

\* C18: in both readers the epoch index is strictly increasing in offset,
\* the loop has appended one frame per epoch decoded, frame i having the
\* epoch of index entry i and the satellites of the lines sliced for it;
\* the lines sliced for epoch i are those from offset_i up to offset_i+1,
\* to the end of the file for the last epoch, without the line at offset_i
\* in RINEX 3/4; no line is sliced for two epochs, and every line from the
\* first offset on is sliced for an epoch, but for the RINEX 3/4 epoch lines
C18_EpochBlocks ==
  (version \in {2, 3} /\ call = None) =>
    /\ \A i \in 1..(Len(EPOCHS) - 1) : EPOCHS[i][2] < EPOCHS[i + 1][2]
    /\ Len(DFall_stk) = iepoc
    /\ iepoc <= Len(EPOCHS)
    /\ \A i \in 1..Len(DFall_stk) :
         /\ \A r \in 1..Len(DFall_stk[i]) :
              DFall_stk[i][r].val[ColEpoch] \in {EPOCHS[i][1], NA}
         /\ \A prn \in PrnsOfFile :
              Cardinality({r \in 1..Len(DFall_stk[i]) :
                             DFall_stk[i][r].val[ColPrn] = prn})
                = NamedIn(SlicedLines(i), prn)
    /\ \A i \in 1..Len(EPOCHS) :
         /\ SlicedLines(i) =
              OffsetRange(i) \ (IF version = 3 THEN {EPOCHS[i][2]} ELSE {})
         /\ \A j \in 1..Len(EPOCHS) :
              i # j => \A p \in SlicedLines(i) : p \notin SlicedLines(j)
    /\ \A p \in 0..(Len(LINES) - 1) :
         (Len(EPOCHS) >= 1 /\ p >= EPOCHS[1][2]
            /\ ~(version = 3 /\ LINES[p + 1].kind = "epoch3")) =>
           \E i \in 1..Len(EPOCHS) : p \in SlicedLines(i)

\* C18 witness: a file of two epochs read to its end, the first block of
\* one satellite and the second of two
C18_Witness ==
  /\ version \in {2, 3} /\ call = None
  /\ Returned
  /\ Len(EPOCHS) = 2 /\ iepoc = 2
  /\ Cardinality(SlicedLines(1)) < Cardinality(SlicedLines(2))
  /\ Len(DFall_stk[1]) = 1
  /\ Len(DFall_stk[2]) = 2

\* some satellite line of a declared system, in the block of some epoch,
\* has the PRN and the epoch of this row
ProducedByLine(row) ==
  \E e \in 1..Len(EPOCHS) : \E q \in 1..Len(SatLines(e)) :
    /\ IsDeclared(SatLines(e)[q])
    /\ Cell(row, ColPrn) = SatLines(e)[q].num
    /\ Cell(row, ColEpoch) = EPOCHS[e][1]

\* C21 as stated: every row of the table returned by read_rinex3_obs has an
\* epoch, the timestamp of the block of the line that produced it, a prn,
\* and for sys the first character of the prn, also when a block holds
\* lines of systems that the header does not declare
C21_AsStated ==
  (Returned /\ version = 3) =>
    \A r \in 1..Len(Table.rows) :
      /\ Cell(Table.rows[r], ColEpoch) # NA
      /\ Cell(Table.rows[r], ColPrn) # NA
      /\ Cell(Table.rows[r], ColSys) = SysOf(Cell(Table.rows[r], ColPrn))
      /\ ProducedByLine(Table.rows[r])

\* the places of the summary table that carry this label
LabelledAs(label) ==
  {j \in 1..Len(output_DF[1].columns) : output_DF[1].columns[j] = label}

\* the label that names the standard deviation of each component
StdLabel ==
  [c \in Range(col_names) |->
     CASE c = "x" -> "x_std"
       [] c = "y" -> "y_std"
       [] c = "z" -> "z_std"
       [] c = "d3D_xyz" -> "d3D_xyz_std"
       [] c = "e" -> "e_std"
       [] c = "n" -> "n_std"
       [] c = "u" -> "u_std"
       [] c = "d2D_enu" -> "d2D_enu_std"
       [] c = "d3D_enu" -> "d3D_enu_std"]

\* C22 as stated: in the summary table that compar_sinex returns with
\* out_means_summary and out_dataframe set, the column labels are pairwise
\* distinct and, for every component c, the standard deviation of c is the
\* value stored under the label c_std
C22_AsStated ==
  (pc = "returned_DF" /\ out_means_summary /\ out_dataframe) =>
    /\ \A i \in 1..Len(output_DF[1].columns) : \A j \in 1..Len(output_DF[1].columns) :
         output_DF[1].columns[i] = output_DF[1].columns[j] => i = j
    /\ \A c \in Range(col_names) :
         /\ LabelledAs(StdLabel[c]) # {}
         /\ \A j \in LabelledAs(StdLabel[c]) : output_DF[1].row[j] = nanstd(Ddiff[c])

====
